---- MODULE Spec2Model ----
(***************************************************************************)
(* Model of the git ingestion connector (LF-Engineering                    *)
(* insights-connector-git): the SyncV2 run of main, the pack flush of      *)
(* GitEnrichItems with its content-hash cache, and the orphan              *)
(* reconciliation, over a small repository history and an object store     *)
(* that persists between runs.                                             *)
(*                                                                         *)
(* Time is counted in units of 60 seconds.  A commit has one date, used as *)
(* its author date and as its committer date.                              *)
(***************************************************************************)
EXTENDS Integers, Sequences, FiniteSets, TLC

\* ------------------------------------------------------------------ bounds
\* Largest number of commits in the repository.
MaxCommits == 4
\* Number of runs of main that are followed.
MaxRuns == 2
\* ctx.PackSize, scaled down from 1000.
PackSize == 2
\* HotRepoCount, scaled down from 50000.
HotRepoCount == 4
\* thrN of Sync, what shared.GetThreadsNum returned, where it is more than 1.
ThrN == 2
\* Largest number of commits the log of a threaded Sync holds.
MaxLogCommits == 3
\* Largest number of commits of a history whose windows are followed alone.
MaxWinCommits == 3
\* Largest number of refs of a commit line.
MaxRefs == 3

\* ------------------------------------------------------------- time scale
MinutesPerDay == 24 * 60
\* until := from.Add(24 * time.Hour * 30)
WindowLen == 30 * MinutesPerDay
\* firstCommit.Author.When.Add(time.Second * -60)
SixtySeconds == 1
\* a calendar half-year (getDateYearHalf: month > 6), taken as 183 days
HalfYearLen == 183 * MinutesPerDay
\* date of the first commit of every modelled history
FirstDate == SixtySeconds
\* the zero time.Time
ZeroTime == 0

Shas == 1..MaxCommits

\* committer dates a commit after the first may carry: the end of the first
\* 30-day window, a date inside the second window, a date in the next half-year
LaterDates == {FirstDate - SixtySeconds + WindowLen,
               FirstDate + WindowLen + MinutesPerDay,
               HalfYearLen + MinutesPerDay}

\* values of the LAST_SYNC environment variable: NoLastSync is the unset
\* (empty) variable, the others are Unix times in the model's unit
NoLastSync == 0 - 1
LastSyncChoices == {NoLastSync, 0, FirstDate + SixtySeconds}

\* renderings of a commit's message in the payload: the hash covers the message
\* as enrichment renders it (trimmed, cut at GitMaxMsgLength), so a cache that an
\* earlier run persisted may hold the hash of another rendering of the same SHA
MsgRevs == {1, 2}

\* ------------------------------------------------------------ map helpers
Put(m, k, v) == [x \in (DOMAIN m) \cup {k} |-> IF x = k THEN v ELSE m[x]]
Values(m) == {m[k] : k \in DOMAIN m}
EmptyMap == [x \in {} |-> 0]
\* m overwritten by the entries of n
Merge(m, n) == [x \in (DOMAIN m) \cup (DOMAIN n) |-> IF x \in DOMAIN n THEN n[x] ELSE m[x]]

RECURSIVE SeqFilter(_, _)
\* the subsequence of s whose elements lie in the set keep
SeqFilter(s, keep) ==
    IF s = <<>> THEN <<>>
    ELSE IF Head(s) \in keep THEN <<Head(s)>> \o SeqFilter(Tail(s), keep)
         ELSE SeqFilter(Tail(s), keep)

Range(s) == {s[i] : i \in 1..Len(s)}

\* --------------------------------------------------------------- payloads
\* git.GenerateCommitID(repoID, sha): the repository id is fixed
GenerateCommitID(sha) == <<"id", sha>>

\* createHash: SHA-256 over ID, SHA, RepositoryURL, RepositoryID, Message,
\* taken as collision-free
createHash(payload) == <<"sha256", payload.ID, payload.SHA, payload.Message>>

\* the payload GetModelData builds for the commit sha
Payload(sha, rev, orphanedMap) ==
    [ID |-> GenerateCommitID(sha), SHA |-> sha, Message |-> <<sha, rev>>,
     Orphaned |-> sha \in orphanedMap]

\* b64(json(payload)); the empty string is <<>>
Encode(payload) == <<payload>>
NoContent == <<>>
NoPath == <<>>

\* ------------------------------------------------------------------ state
VARIABLES
    dates,          \* the repository: commit (sha) -> date, of every commit ever pushed
    hist,           \* the commits reachable from HEAD now
    cacheFile,      \* object store: rows of commits-cache.csv
    updateFile,     \* object store: rows of commits-update-cache.csv
    shardFiles,     \* object store: half-year -> rows of commits-cache-<year>-<half>.csv
    lastSyncFile,   \* object store: last_sync of the last-sync record (ZeroTime: none)
    runs,           \* number of runs of main started so far
    pc,             \* position of main / SyncV2
    lastSync,       \* os.Getenv("LAST_SYNC") of the current run
    msgRev,         \* how the current run renders commit messages
    OrphanedMap,    \* j.OrphanedMap: the SHAs the orphan detector returned
    from,           \* SyncV2's from
    queue,          \* commits of the current 30-day window not yet processed
    allCommits,     \* SyncV2's allCommits
    allDocs,        \* SyncV2's allDocs, the docs of GitEnrichItems
    idx,            \* index of the next item of GitEnrichItems' loop
    cachedCommits,
    CachedCommitsUpdates,
    createdCommits,
    gMaxUpstreamDt,
    IsHotRep,
    CurrentCacheHalf,   \* CurrentCacheYear and CurrentCacheYearHalf
    pushes,         \* the calls of Publisher.PushEvents of the current run, in order
    statusLog,      \* the calls of WriteLog of the current run, in order
    syncErr,        \* whether SyncV2 returned an error
    loaded,         \* the cache keys loaded from the object store in the current run
    seen,           \* the commits the pack flush has handled in the current run
    enrichFailed,   \* the commits whose enrichment returned an error in the current run
    unchanged,      \* the previous run ended without error, all its publishes
                    \* succeeded, it handled every commit of the history, and
                    \* the history is still the one it saw
    rerun,          \* the current run repeats the previous one: unchanged held at
                    \* its start and it renders messages alike
    item,           \* enrichment of one commit: <<the raw item>>, or <<>>
    rich,           \* enrichment of one commit: <<the result of getRichItem>>, or <<>>
    emitted,        \* enrichment of one commit: <<the commit of GetModelData>>, or <<>>
    lines,          \* parsing of one commit: the lines of its file section
    CurrLine,       \* parsing of one commit: the index of the next line
    CommitFiles,    \* j.CommitFiles: name of a file -> what its lines said
    origin,         \* commit URL of one commit: the origin of the repository (j.URL)
    hsh,            \* commit URL of one commit: the sha of the commit
    commit_url,     \* commit URL of one commit: <<what GetCommitURL returned>>, or <<>>
    ParseState,     \* j.ParseState
    Commit,         \* j.Commit: <<the commit being parsed>>, or <<>> for nil
    line,           \* parsing of a log: <<the line of the last pass of the scanner loop>>
    yielded,        \* parsing of a log: the commits ParseNextCommit has returned
    parseErr,       \* parsing of a log: <<the line number of the error returned>>, or <<>>
    logPos,         \* parsing of a log: where the loop of Sync over ParseNextCommit is
    commitLines,    \* parsing of a log: the shas of the commit lines read so far
    mainPos,        \* Sync with thrN > 1: where the controller is
    nThreads,       \* Sync with thrN > 1: the controller's count of running goroutines
    thr,            \* Sync with thrN > 1: the goroutine of each commit
    goch,           \* the LOC collector (GetGitOps' worker) and its channel
    occh,           \* the orphan detector (GetOrphanedCommits' worker) and its channel
    locFinished,
    waitLOCMtx,     \* the goroutine holding waitLOCMtx, or 0
    allCommitsMtx,  \* whether allCommitsMtx is locked
    pack,           \* Sync's allCommits: the pending pack
    flushed,        \* the packs handed to GitEnrichItems, in order
    escha,          \* the channels of the pack flushes, by the goroutine that started them
    eschaTodo,      \* what is left of the controller's loop over escha
    late,           \* the goroutine that waits for the helpers when no commit did
    authorWhen,     \* the windows of SyncV2 alone: commit -> its author date
    DateFrom,       \* the windows of SyncV2 alone: ctx.DateFrom
    fed,            \* the windows of SyncV2 alone: the commits handed to processCommit
    refs,           \* branch of one commit: the refs of its commit line
    branch          \* branch of one commit: <<what GetCommitBranch returned>>, or <<>>

vars == <<dates, hist, cacheFile, updateFile, shardFiles, lastSyncFile, runs, pc,
          lastSync, msgRev, OrphanedMap, from, queue, allCommits, allDocs, idx,
          cachedCommits, CachedCommitsUpdates, createdCommits, gMaxUpstreamDt,
          IsHotRep, CurrentCacheHalf, pushes, statusLog, syncErr, loaded, seen, enrichFailed,
          unchanged, rerun, item, rich, emitted, lines, CurrLine, CommitFiles,
          origin, hsh, commit_url, ParseState, Commit, line, yielded, parseErr,
          logPos, commitLines, mainPos, nThreads, thr, goch, occh, locFinished,
          waitLOCMtx, allCommitsMtx, pack, flushed, escha, eschaTodo, late,
          authorWhen, DateFrom, fed, refs, branch>>

storeVars == <<cacheFile, updateFile, shardFiles, lastSyncFile>>
repoVars == <<dates, hist>>
envVars == <<lastSync, msgRev, OrphanedMap>>
memVars == <<cachedCommits, CachedCommitsUpdates, createdCommits, gMaxUpstreamDt,
             IsHotRep, CurrentCacheHalf>>
\* the variables of the enrichment of one commit, and those of a run of main
enrichVars == <<item, rich, emitted, lines, CurrLine, CommitFiles>>
urlVars == <<origin, hsh, commit_url>>
\* what a run of main leaves alone, and what the enrichment of one commit does
logVars == <<ParseState, Commit, line, yielded, parseErr, logPos, commitLines>>
\* the variables of Sync with more than one thread
thrVars == <<mainPos, nThreads, thr, goch, occh, locFinished, waitLOCMtx,
             allCommitsMtx, pack, flushed, escha, eschaTodo, late>>
\* the variables of the window loop of SyncV2 taken alone
winVars == <<authorWhen, DateFrom, fed>>
brVars == <<refs, branch>>
outsideSync == <<enrichVars, urlVars, logVars, thrVars, winVars, brVars>>
syncVars == <<dates, hist, cacheFile, updateFile, shardFiles, lastSyncFile, runs, pc,
              lastSync, msgRev, OrphanedMap, from, queue, allCommits, allDocs, idx,
              cachedCommits, CachedCommitsUpdates, createdCommits, gMaxUpstreamDt,
              IsHotRep, CurrentCacheHalf, pushes, statusLog, syncErr, loaded, seen,
              enrichFailed, unchanged, rerun>>
outsideEnrich == <<syncVars, urlVars, logVars, thrVars, winVars, brVars>>
outsideUrl == <<syncVars, enrichVars, logVars, thrVars, winVars, brVars>>
outsideThr == <<syncVars, enrichVars, urlVars, logVars, winVars, brVars>>

\* getDateYearHalf together with the year: the half-year a date lies in
getDateYearHalf(t) == t \div HalfYearLen
Halves == 0..getDateYearHalf(HalfYearLen + MinutesPerDay)

\* ------------------------------------------------------------- repository
RECURSIVE SortByDate(_, _)
\* the commits of set c in ascending order of date, then of sha
SortByDate(c, d) ==
    IF c = {} THEN <<>>
    ELSE LET m == CHOOSE x \in c : \A y \in c :
                      d[x] < d[y] \/ (d[x] = d[y] /\ x <= y)
         IN <<m>> \o SortByDate(c \ {m}, d)

getFirstCommit == SortByDate(hist, dates)[1]
headCommit == SortByDate(hist, dates)[Cardinality(hist)]
getCommitsCount == Cardinality(hist)

\* the listing of a window walked from its first element to its last
getRepoCommitsNewestFirst(since, until) ==
    LET asc == SortByDate({s \in hist : dates[s] >= since /\ dates[s] <= until}, dates)
    IN  [i \in 1..Len(asc) |-> asc[Len(asc) + 1 - i]]

\* r.Log with Since and Until: go-git keeps the commits whose committer date is
\* neither before since nor after until, newest first; SyncV2 walks the result
\* from its last element to its first
getRepoCommits(since, until) ==
    SortByDate({s \in hist : dates[s] >= since /\ dates[s] <= until}, dates)

\* ------------------------------------------------------------------ cache
\* a CommitCache entry (Timestamp, FromDL and the unpersisted CommitDate left out)
CommitCache(payload, content) ==
    [EntityID |-> payload.ID, SourceEntityID |-> payload.SHA, FileLocation |-> NoPath,
     Hash |-> createHash(payload), Orphaned |-> FALSE, Content |-> content]

\* the result of isHashCreated: the hash is a key of cachedCommits
isHashCreated(cc, hash) == hash \in DOMAIN cc

\* the effect of isHashCreated on cachedCommits: the entry found is un-orphaned
ClearOrphaned(cc, hash) ==
    IF hash \in DOMAIN cc THEN [cc EXCEPT ![hash].Orphaned = FALSE] ELSE cc

\* isCommitCreated looks the entity id up among the keys of cachedCommits
isCommitCreated(cc, id) == id \in DOMAIN cc

\* the rows of a cache file read into a map keyed by the hash column; with
\* LAST_SYNC set every row is read as orphaned.  Rows that share a hash
\* overwrite each other in the order of the file, which is the iteration order
\* of the map that was written: any of them may be the one kept.
LoadChoices(rows, ls) ==
    LET mark(r) == IF ls # NoLastSync THEN [r EXCEPT !.Orphaned = TRUE] ELSE r
        RECURSIVE over(_)
        over(hs) ==
            IF hs = {} THEN {EmptyMap}
            ELSE LET h == CHOOSE x \in hs : TRUE
                 IN {Put(f, h, mark(r)) : f \in over(hs \ {h}),
                                          r \in {x \in rows : x.Hash = h}}
    IN over({r.Hash : r \in rows})

\* createdCommits[record[1]] = true for every row read
LoadedIds(rows) == {r.EntityID : r \in rows}

RECURSIVE PutAll(_, _, _)
\* for _, comm := range cache { comm.FileLocation = path; m[comm.EntityID] = comm }
PutAll(m, cache, path) ==
    IF cache = <<>> THEN m
    ELSE PutAll(Put(m, Head(cache).EntityID, [Head(cache) EXCEPT !.FileLocation = path]),
                Tail(cache), path)

\* createCacheFile: the new cachedCommits; all of it is then written to the file
createCacheFile(cc, cache, path) == PutAll(cc, cache, path)

\* createUpdateCacheFile: the new CachedCommitsUpdates, then written to its file
createUpdateCacheFile(ccu, cache, path) == PutAll(ccu, cache, path)

\* the entries of cache that createYearHalfCacheFile keeps for the current shard
InCurrentHalf(cache, half) ==
    SeqFilter(cache, {c \in Range(cache) : getDateYearHalf(dates[c.SourceEntityID]) = half})
NotInCurrentHalf(cache, half) ==
    SeqFilter(cache, {c \in Range(cache) : getDateYearHalf(dates[c.SourceEntityID]) # half})

\* the half-year createYearHalfCacheFile moves to: that of nextYearHalfCache[0]
NextHalf(cache, half) ==
    IF NotInCurrentHalf(cache, half) = <<>> THEN half
    ELSE getDateYearHalf(dates[NotInCurrentHalf(cache, half)[1].SourceEntityID])

\* createYearHalfCacheFile: entries of the current half-year are stored and the
\* shard written (syncRemoteCurrentYearCache); if others remain, the shard of the
\* first of them becomes current, is loaded (ld) over the map, all the others are
\* stored and that shard written
createYearHalfCacheFile(cc, shards, half, cache, path, ld) ==
    LET cc1 == PutAll(cc, InCurrentHalf(cache, half), path)
        shards1 == [shards EXCEPT ![half] = Values(cc1)]
        next == NotInCurrentHalf(cache, half)
        half2 == NextHalf(cache, half)
        cc2 == PutAll(Merge(cc1, ld), next, path)
    IN IF next = <<>>
       THEN [cc |-> cc1, shards |-> shards1, half |-> half, loadedKeys |-> {}]
       ELSE [cc |-> cc2, shards |-> [shards1 EXCEPT ![half2] = Values(cc2)],
             half |-> half2, loadedKeys |-> DOMAIN ld]

\* -------------------------------------------------------------- pack flush
CommitCreated == "commit.created"
CommitUpdated == "commit.updated"

\* the storage path a successful PushEvents returns: one per call and run
PathOf(n) == <<runs, n>>

\* a call of Publisher.PushEvents: the function that made it, its action, its
\* events, its outcome and the path it returned
Push(by, type, events, ok, n) ==
    [by |-> by, type |-> type, events |-> events, ok |-> ok,
     path |-> IF ok THEN PathOf(n) ELSE NoPath]

\* the payloads of docs that the loop of outputDocs puts into formattedData
FormattedData(cc, data) ==
    SeqFilter(data, {d \in Range(data) :
        ~isHashCreated(cc, createHash(d)) /\ ~isCommitCreated(cc, d.ID)})

\* the payloads of docs that the loop of outputDocs puts into updatedData
UpdatedData(cc, data) ==
    SeqFilter(data, {d \in Range(data) :
        isCommitCreated(cc, d.ID) /\ ~isHashCreated(cc, createHash(d))})

RECURSIVE ClearAll(_, _)
\* cachedCommits after isHashCreated was called for every payload of data
ClearAll(cc, data) ==
    IF data = <<>> THEN cc
    ELSE ClearAll(ClearOrphaned(cc, createHash(Head(data))), Tail(data))

\* the cache entries built for a batch
CacheEntries(batch, hot) ==
    [i \in 1..Len(batch) |->
        CommitCache(batch[i], IF hot THEN NoContent ELSE Encode(batch[i]))]

\* gMaxUpstreamDt after GetModelData went over docs
MaxUpstream(g, docs) ==
    IF \E i \in 1..Len(docs) : dates[docs[i]] > g
    THEN CHOOSE t \in {dates[docs[i]] : i \in 1..Len(docs)} :
            \A i \in 1..Len(docs) : dates[docs[i]] <= t
    ELSE g

\* setLastSync writes the record unless gMaxUpstreamDt is the zero time
setLastSync(file, g) == IF g # ZeroTime THEN g ELSE file

\* outputDocs, for a non-empty docs: okC and okU are the outcomes of the two
\* PushEvents calls (if made), ld the rows kept when a shard is loaded.  The
\* result holds every variable outputDocs may change.
outputDocs(docs, okC, okU, ld) ==
    LET data == [i \in 1..Len(docs) |-> Payload(docs[i], msgRev, OrphanedMap)]
        g == MaxUpstream(gMaxUpstreamDt, docs)
        formatted == FormattedData(cachedCommits, data)
        updated == UpdatedData(cachedCommits, data)
        cc0 == ClearAll(cachedCommits, data)
        created0 == createdCommits \cup {d.ID : d \in Range(formatted)}
        n1 == Len(pushes) + 1
        push1 == IF formatted = <<>> THEN <<>>
                 ELSE <<Push("outputDocs", CommitCreated, formatted, okC, n1)>>
        failed1 == formatted # <<>> /\ ~okC
        \* after the commit.created batch
        yh == createYearHalfCacheFile(cc0, shardFiles, CurrentCacheHalf,
                                      CacheEntries(formatted, TRUE), PathOf(n1), ld)
        switched == IsHotRep /\ formatted # <<>> /\ okC /\ yh.half # CurrentCacheHalf
        cc1 == IF formatted = <<>> \/ ~okC THEN cc0
               ELSE IF IsHotRep THEN yh.cc
               ELSE createCacheFile(cc0, CacheEntries(formatted, FALSE), PathOf(n1))
        cacheFile1 == IF formatted # <<>> /\ okC /\ ~IsHotRep THEN Values(cc1) ELSE cacheFile
        shards1 == IF formatted # <<>> /\ okC /\ IsHotRep THEN yh.shards ELSE shardFiles
        half1 == IF formatted # <<>> /\ okC /\ IsHotRep THEN yh.half ELSE CurrentCacheHalf
        created1 == IF switched THEN created0 \cup LoadedIds(shardFiles[yh.half])
                    ELSE created0
        loaded1 == IF switched THEN loaded \cup yh.loadedKeys ELSE loaded
        \* the commit.updated batch
        n2 == Len(pushes) + Len(push1) + 1
        push2 == IF failed1 \/ updated = <<>> THEN <<>>
                 ELSE <<Push("outputDocs", CommitUpdated, updated, okU, n2)>>
        failed2 == ~failed1 /\ updated # <<>> /\ ~okU
        done2 == ~failed1 /\ updated # <<>> /\ okU
        cc2 == IF done2 /\ ~IsHotRep
               THEN createCacheFile(cc1, CacheEntries(updated, FALSE), PathOf(n2))
               ELSE cc1
        cacheFile2 == IF done2 /\ ~IsHotRep THEN Values(cc2) ELSE cacheFile1
        ccu2 == IF done2 /\ IsHotRep
                THEN createUpdateCacheFile(CachedCommitsUpdates,
                                           CacheEntries(updated, TRUE), PathOf(n2))
                ELSE CachedCommitsUpdates
        updateFile2 == IF done2 /\ IsHotRep THEN Values(ccu2) ELSE updateFile
        failed == failed1 \/ failed2
    IN [cachedCommits |-> cc2, CachedCommitsUpdates |-> ccu2,
        createdCommits |-> created1, gMaxUpstreamDt |-> g,
        CurrentCacheHalf |-> half1, cacheFile |-> cacheFile2,
        updateFile |-> updateFile2, shardFiles |-> shards1,
        lastSyncFile |-> IF failed THEN lastSyncFile ELSE setLastSync(lastSyncFile, g),
        allDocs |-> IF failed THEN docs ELSE <<>>,
        pushes |-> pushes \o push1 \o push2,
        loaded |-> loaded1,
        seen |-> seen \cup Range(docs)]

\* the shard rows outputDocs may have to load for docs: those of the half-year
\* the commit.created batch moves to
ShardToLoad(docs) ==
    LET data == [i \in 1..Len(docs) |-> Payload(docs[i], msgRev, OrphanedMap)]
        half2 == NextHalf(CacheEntries(FormattedData(cachedCommits, data), TRUE),
                          CurrentCacheHalf)
    IN IF IsHotRep /\ half2 # CurrentCacheHalf
       THEN LoadChoices(shardFiles[half2], lastSync)
       ELSE {EmptyMap}

\* ---------------------------------------------------------- reconciliation
RECURSIVE SetToSeq(_)
SetToSeq(S) ==
    IF S = {} THEN <<>>
    ELSE LET x == CHOOSE y \in S : TRUE IN <<x>> \o SetToSeq(S \ {x})

\* jsoniter.Unmarshal of the decoded content fails on the empty content
Decodable(entry) == entry.Content # NoContent

\* the events handleDataLakeOrphans builds: the stored payload of every entry
\* marked orphaned whose content decodes, with Orphaned set
OrphanEvents(cc) ==
    SetToSeq({[cc[k].Content[1] EXCEPT !.Orphaned = TRUE] :
                k \in {x \in DOMAIN cc : cc[x].Orphaned /\ Decodable(cc[x])}})

\* the zero CommitCache a missing map key yields
ZeroEntry ==
    [EntityID |-> <<>>, SourceEntityID |-> 0, FileLocation |-> NoPath,
     Hash |-> <<>>, Orphaned |-> FALSE, Content |-> NoContent]

RECURSIVE StampAll(_, _, _)
\* after the publish: the entry under each event's hash gets the path and loses
\* its content
StampAll(cc, events, path) ==
    IF events = <<>> THEN cc
    ELSE LET h == createHash(Head(events))
             old == IF h \in DOMAIN cc THEN cc[h] ELSE ZeroEntry
         IN StampAll(Put(cc, h, [old EXCEPT !.FileLocation = path,
                                            !.Content = NoContent]),
                     Tail(events), path)

\* ---------------------------------------------------------------- statuses
InProgress == "in_progress"
Failed == "failed"
Done == "done"

\* a call of WriteLog and whether it returned without error
LogEntry(status, ok) == [status |-> status, ok |-> ok]

\* ------------------------------------------------------------------- Init
NonDecreasing(d) == \A i, j \in DOMAIN d : i <= j => d[i] <= d[j]

\* the process and the object store before the first run
ProcessStart ==
    /\ cacheFile = {}
    /\ updateFile = {}
    /\ shardFiles = [h \in Halves |-> {}]
    /\ lastSyncFile = ZeroTime
    /\ runs = 0
    /\ pc = "idle"
    /\ lastSync = NoLastSync
    /\ msgRev = 1
    /\ OrphanedMap = {}
    /\ from = ZeroTime
    /\ queue = <<>>
    /\ allCommits = <<>>
    /\ allDocs = <<>>
    /\ idx = 1
    /\ cachedCommits = EmptyMap
    /\ CachedCommitsUpdates = EmptyMap
    /\ createdCommits = {}
    /\ gMaxUpstreamDt = ZeroTime
    /\ IsHotRep = FALSE
    /\ CurrentCacheHalf = 0
    /\ pushes = <<>>
    /\ statusLog = <<>>
    /\ syncErr = FALSE
    /\ loaded = {}
    /\ seen = {}
    /\ enrichFailed = {}
    /\ unchanged = FALSE
    /\ rerun = FALSE

\* no file section is being parsed
NoParsing ==
    /\ lines = <<>>
    /\ CurrLine = 1
    /\ CommitFiles = EmptyMap

\* no commit is being parsed or enriched on its own
NoEnrichment ==
    /\ item = <<>>
    /\ rich = <<>>
    /\ emitted = <<>>
    /\ NoParsing

\* no commit URL is being derived on its own
NoCommitURL ==
    /\ origin = <<>>
    /\ hsh = ""
    /\ commit_url = <<>>

\* no git log is being parsed
NoLog ==
    /\ ParseState = 0      \* GitParseStateInit
    /\ Commit = <<>>
    /\ line = <<>>
    /\ yielded = <<>>
    /\ parseErr = <<>>
    /\ logPos = "idle"
    /\ commitLines = <<>>

\* the goroutines Sync starts, one per commit of the log
Goroutines == 1..MaxLogCommits
\* a goroutine that has not been started
NotStarted == [pc |-> "none", e1 |-> FALSE, e |-> FALSE, esch |-> "none", ee |-> FALSE]
\* a background helper that has not been started
NoHelper == [pc |-> "idle", e |-> FALSE]

\* no branch is being derived on its own
NoBranch ==
    /\ refs = <<>>
    /\ branch = <<>>

\* the window loop of SyncV2 is not followed on its own
NoWindows ==
    /\ authorWhen = <<>>
    /\ DateFrom = ZeroTime
    /\ fed = <<>>

\* no Sync with more than one thread is running
NoThreads ==
    /\ mainPos = "idle"
    /\ nThreads = 0
    /\ thr = [t \in Goroutines |-> NotStarted]
    /\ goch = NoHelper
    /\ occh = NoHelper
    /\ locFinished = FALSE
    /\ waitLOCMtx = 0
    /\ allCommitsMtx = FALSE
    /\ pack = <<>>
    /\ flushed = <<>>
    /\ escha = <<>>
    /\ eschaTodo = <<>>
    /\ late = "none"

Init ==
    /\ \E n \in {MaxCommits - 1, MaxCommits} :
         /\ hist = 1..n
         /\ dates \in {d \in [1..n -> {FirstDate} \cup LaterDates] :
                          /\ d[1] = FirstDate
                          /\ \A i \in 2..n : d[i] \in LaterDates
                          /\ NonDecreasing(d)}
    /\ ProcessStart
    /\ NoCommitURL
    /\ NoThreads
    /\ NoWindows
    /\ NoBranch
    /\ NoLog
    /\ NoEnrichment

\* ---------------------------------------------------------------- actions
\* main up to WriteLog(InProgress): a new process with the environment of this
\* run; FatalOnError ends it if the write fails
StartRun(ls, rev, om, ok) ==
    /\ UNCHANGED outsideSync
    /\ pc = "idle"
    /\ runs < MaxRuns
    /\ runs = 0 => rev = 1
    /\ runs' = runs + 1
    /\ lastSync' = ls
    /\ msgRev' = rev
    /\ OrphanedMap' = om
    /\ statusLog' = <<LogEntry(InProgress, ok)>>
    /\ pc' = IF ok THEN "prepare" ELSE "idle"
    /\ rerun' = (unchanged /\ rev = msgRev)
    /\ unchanged' = (unchanged /\ ok /\ rev = msgRev)
    /\ from' = ZeroTime
    /\ queue' = <<>>
    /\ allCommits' = <<>>
    /\ allDocs' = <<>>
    /\ idx' = 1
    /\ cachedCommits' = EmptyMap
    /\ CachedCommitsUpdates' = EmptyMap
    /\ createdCommits' = {}
    /\ gMaxUpstreamDt' = ZeroTime
    /\ IsHotRep' = FALSE
    /\ CurrentCacheHalf' = 0
    /\ pushes' = <<>>
    /\ syncErr' = FALSE
    /\ loaded' = {}
    /\ seen' = {}
    /\ enrichFailed' = {}
    /\ UNCHANGED <<repoVars, storeVars>>

\* between two runs the history is rewritten: a commit is no longer reachable
RewriteHistory(s) ==
    /\ UNCHANGED outsideSync
    /\ pc = "idle"
    /\ runs >= 1
    /\ runs < MaxRuns
    /\ hist = DOMAIN dates
    /\ s \in hist
    /\ Cardinality(hist) > 2
    /\ hist' = hist \ {s}
    /\ unchanged' = FALSE
    /\ UNCHANGED <<dates, storeVars, runs, pc, envVars, from, queue, allCommits,
                   allDocs, idx, memVars, pushes, statusLog, syncErr, loaded, seen, enrichFailed,
                   rerun>>

\* SyncV2 returns an error before it reads the cache: the repository cannot be
\* opened (cloneRepoCommand, getFirstCommit, r.Head)
SyncAborts ==
    /\ UNCHANGED outsideSync
    /\ pc = "prepare"
    /\ syncErr' = TRUE
    /\ pc' = "finish"
    /\ UNCHANGED <<repoVars, storeVars, runs, envVars, from, queue, allCommits,
                   allDocs, idx, memVars, pushes, statusLog, loaded, seen, enrichFailed, unchanged, rerun>>

\* SyncV2 does not return: shared.FatalOnError ends the process when the path
\* of the local clone cannot be made (shared.EnsurePath)
SyncFatal ==
    /\ UNCHANGED outsideSync
    /\ pc = "prepare"
    /\ pc' = "idle"
    /\ unchanged' = FALSE
    /\ UNCHANGED <<repoVars, storeVars, runs, envVars, from, queue, allCommits,
                   allDocs, idx, memVars, pushes, statusLog, syncErr, loaded, seen, enrichFailed,
                   rerun>>

\* the date SyncV2 starts from
StartDate ==
    LET dateFrom == IF lastSync # NoLastSync THEN lastSync ELSE lastSyncFile
        first == dates[getFirstCommit] - SixtySeconds
    IN IF dateFrom > first THEN dateFrom ELSE first

\* SyncV2 from its start to the loading of the cache: getCache, or for a hot
\* repository getYearHalfCache and getUpdateCache
SyncPrepare ==
    /\ UNCHANGED outsideSync
    /\ pc = "prepare"
    /\ from' = StartDate
    /\ IsHotRep' = (getCommitsCount >= HotRepoCount)
    /\ IF IsHotRep'
       THEN /\ CurrentCacheHalf' = getDateYearHalf(StartDate)
            /\ \E ld \in LoadChoices(shardFiles[CurrentCacheHalf'], lastSync) :
                 /\ cachedCommits' = ld
                 /\ loaded' = DOMAIN ld
            /\ CachedCommitsUpdates' \in LoadChoices(updateFile, lastSync)
            /\ createdCommits' = LoadedIds(shardFiles[CurrentCacheHalf'])
                                    \cup LoadedIds(updateFile)
       ELSE /\ CurrentCacheHalf' = CurrentCacheHalf
            /\ \E ld \in LoadChoices(cacheFile, lastSync) :
                 /\ cachedCommits' = ld
                 /\ loaded' = DOMAIN ld
            /\ CachedCommitsUpdates' = CachedCommitsUpdates
            /\ createdCommits' = LoadedIds(cacheFile)
    /\ pc' = "windows"
    /\ UNCHANGED <<repoVars, storeVars, runs, envVars, queue, allCommits, allDocs,
                   idx, gMaxUpstreamDt, pushes, statusLog, syncErr, seen, enrichFailed, unchanged, rerun>>

\* the head of SyncV2's loop: the next 30-day window is listed, or the loop ends
FetchWindow ==
    /\ UNCHANGED outsideSync
    /\ pc = "windows"
    /\ IF from < dates[headCommit]
       THEN /\ queue' = getRepoCommits(from, from + WindowLen)
            /\ from' = from + WindowLen
            /\ pc' = IF queue' = <<>> THEN "windows" ELSE "commits"
       ELSE /\ pc' = "finalEnrich"
            /\ UNCHANGED <<queue, from>>
    /\ idx' = 1
    /\ UNCHANGED <<repoVars, storeVars, runs, envVars, allCommits, allDocs, memVars,
                   pushes, statusLog, syncErr, loaded, seen, enrichFailed, unchanged, rerun>>

\* processCommit: the commit joins allCommits; a full allCommits goes to
\* GitEnrichItems
ProcessCommit ==
    /\ UNCHANGED outsideSync
    /\ pc = "commits"
    /\ queue # <<>>
    /\ allCommits' = Append(allCommits, Head(queue))
    /\ queue' = Tail(queue)
    /\ pc' = IF Len(allCommits') >= PackSize THEN "enrich"
             ELSE IF queue' = <<>> THEN "windows" ELSE "commits"
    /\ idx' = 1
    /\ UNCHANGED <<repoVars, storeVars, runs, envVars, from, allDocs, memVars,
                   pushes, statusLog, syncErr, loaded, seen, enrichFailed, unchanged, rerun>>

\* the variables outputDocs changes take the values of its result r
Flushed(r) ==
    /\ cachedCommits' = r.cachedCommits
    /\ CachedCommitsUpdates' = r.CachedCommitsUpdates
    /\ createdCommits' = r.createdCommits
    /\ gMaxUpstreamDt' = r.gMaxUpstreamDt
    /\ CurrentCacheHalf' = r.CurrentCacheHalf
    /\ cacheFile' = r.cacheFile
    /\ updateFile' = r.updateFile
    /\ shardFiles' = r.shardFiles
    /\ lastSyncFile' = r.lastSyncFile
    /\ allDocs' = r.allDocs
    /\ pushes' = r.pushes
    /\ loaded' = r.loaded
    /\ seen' = r.seen

NotFlushed ==
    UNCHANGED <<cachedCommits, CachedCommitsUpdates, createdCommits, gMaxUpstreamDt,
                CurrentCacheHalf, cacheFile, updateFile, shardFiles, lastSyncFile,
                pushes, loaded, seen>>

\* procItem of GitEnrichItems.  The item is enriched and joins docs; docs of
\* PackSize or more are flushed.  After the last item of a non-final call
\* GitEnrichItems returns and SyncV2 empties allCommits.  When the enrichment of
\* the item fails (bad), procItem returns the error and the loop of
\* GitEnrichItems returns it: a non-final call hands it to sendToQueue, which
\* logs it and empties allCommits, and processCommit and SyncV2 return it; in
\* the final call the items left are not enriched, the deferred outputDocs
\* follows and SyncV2 only logs the error.
procItem(okC, okU, bad) ==
    /\ UNCHANGED outsideSync
    /\ pc \in {"enrich", "finalEnrich"}
    /\ idx <= Len(allCommits)
    /\ IF bad
       THEN /\ enrichFailed' = enrichFailed \cup {allCommits[idx]}
            /\ allDocs' = allDocs
            /\ NotFlushed
            /\ IF pc = "enrich"
               THEN /\ allCommits' = <<>>
                    /\ idx' = 1
                    /\ syncErr' = TRUE
                    /\ pc' = "finish"
               ELSE /\ allCommits' = allCommits
                    /\ idx' = Len(allCommits) + 1
                    /\ syncErr' = syncErr
                    /\ pc' = pc
       ELSE /\ LET docs == Append(allDocs, allCommits[idx])
               IN IF Len(docs) >= PackSize
                  THEN \E ld \in ShardToLoad(docs) :
                          Flushed(outputDocs(docs, okC, okU, ld))
                  ELSE allDocs' = docs /\ NotFlushed
            /\ IF pc = "enrich" /\ idx = Len(allCommits)
               THEN /\ allCommits' = <<>>
                    /\ idx' = 1
                    /\ pc' = IF queue = <<>> THEN "windows" ELSE "commits"
               ELSE /\ allCommits' = allCommits
                    /\ idx' = idx + 1
                    /\ pc' = pc
            /\ UNCHANGED <<syncErr, enrichFailed>>
    /\ UNCHANGED <<repoVars, runs, envVars, from, queue, IsHotRep, statusLog,
                   unchanged, rerun>>

\* the deferred outputDocs of the final GitEnrichItems call
FinalFlush(okC, okU) ==
    /\ UNCHANGED outsideSync
    /\ pc = "finalEnrich"
    /\ idx > Len(allCommits)
    /\ IF allDocs # <<>>
       THEN \E ld \in ShardToLoad(allDocs) : Flushed(outputDocs(allDocs, okC, okU, ld))
       ELSE allDocs' = allDocs /\ NotFlushed
    /\ pc' = IF lastSync # NoLastSync THEN "reconcile" ELSE "return"
    /\ UNCHANGED <<repoVars, runs, envVars, from, queue, allCommits, idx, IsHotRep,
                   statusLog, syncErr, unchanged, rerun, enrichFailed>>

\* handleDataLakeOrphans, called when LAST_SYNC is set
handleDataLakeOrphans(ok) ==
    /\ UNCHANGED outsideSync
    /\ pc = "reconcile"
    /\ LET events == OrphanEvents(cachedCommits)
           n == Len(pushes) + 1
       IN IF events = <<>>
          THEN UNCHANGED <<pushes, cachedCommits, updateFile>>
          ELSE /\ pushes' = Append(pushes, Push("handleDataLakeOrphans", CommitUpdated,
                                                events, ok, n))
               /\ IF ok
                  THEN /\ cachedCommits' = StampAll(cachedCommits, events, PathOf(n))
                       /\ updateFile' = Values(createUpdateCacheFile(
                                            CachedCommitsUpdates, <<>>, NoPath))
                  ELSE UNCHANGED <<cachedCommits, updateFile>>
    /\ pc' = "return"
    /\ UNCHANGED <<repoVars, cacheFile, shardFiles, lastSyncFile, runs, envVars, from,
                   queue, allCommits, allDocs, idx, CachedCommitsUpdates,
                   createdCommits, gMaxUpstreamDt, IsHotRep, CurrentCacheHalf,
                   statusLog, syncErr, loaded, seen, enrichFailed, unchanged, rerun>>

\* the end of SyncV2: err = j.setLastSync(ctx); return
SyncReturns ==
    /\ UNCHANGED outsideSync
    /\ pc = "return"
    /\ lastSyncFile' = setLastSync(lastSyncFile, gMaxUpstreamDt)
    /\ syncErr' = FALSE
    /\ pc' = "finish"
    /\ UNCHANGED <<repoVars, cacheFile, updateFile, shardFiles, runs, envVars, from,
                   queue, allCommits, allDocs, idx, memVars, pushes, statusLog,
                   loaded, seen, enrichFailed, unchanged, rerun>>

\* a main that writes done whatever SyncV2 returned
TerminalStatusAlwaysDone(err) == Done

\* the status main writes after SyncV2 returned err
TerminalStatus(err) == IF err THEN Failed ELSE Done

\* main after SyncV2: WriteLog(Failed, err) and FatalOnError, or WriteLog(Done)
MainReports(ok) ==
    /\ UNCHANGED outsideSync
    /\ pc = "finish"
    /\ statusLog' = Append(statusLog,
                           LogEntry(TerminalStatus(syncErr), ok))
    /\ pc' = "idle"
    /\ unchanged' = (/\ ~syncErr
                     /\ \A i \in 1..Len(pushes) : pushes[i].ok
                     /\ seen = hist)
    /\ UNCHANGED <<repoVars, storeVars, runs, envVars, from, queue, allCommits,
                   allDocs, idx, memVars, pushes, syncErr, loaded, seen, enrichFailed, rerun>>

Next ==
    \/ \E ls \in LastSyncChoices, rev \in MsgRevs, ok \in BOOLEAN :
         \E om \in SUBSET ((DOMAIN dates) \ hist) : StartRun(ls, rev, om, ok)
    \/ \E s \in Shas : RewriteHistory(s)
    \/ SyncAborts
    \/ SyncFatal
    \/ SyncPrepare
    \/ FetchWindow
    \/ ProcessCommit
    \/ \E okC, okU, bad \in BOOLEAN : procItem(okC, okU, bad)
    \/ \E okC, okU \in BOOLEAN : FinalFlush(okC, okU)
    \/ \E ok \in BOOLEAN : handleDataLakeOrphans(ok)
    \/ SyncReturns
    \/ \E ok \in BOOLEAN : MainReports(ok)

Spec == Init /\ [][Next]_vars


\* ------------------------------------------------ the file section of a commit
\* A path is a string: a sequence of tokens that follow each other without
\* spaces.  Slash, Open, Close and Arrow are the tokens "/", "{", "}" and
\* " => "; the other tokens are names of files and directories.
Slash == "/"
Open == "{"
Close == "}"
Arrow == " => "

\* most changed files of a commit
MaxFiles == 2

\* the index of the first token tok of f at or after index i, or 0
IndexAt(f, tok, i) ==
    IF \E x \in i..Len(f) : f[x] = tok
    THEN CHOOSE x \in i..Len(f) : f[x] = tok /\ \A y \in i..(x - 1) : f[y] # tok
    ELSE 0

\* ExtractPrevFileName: the name a file had before it was renamed
ExtractPrevFileName(f) ==
    LET i == IndexAt(f, Open, 1)
        j == IndexAt(f, Close, 1)
    IN IF i > 0 /\ j > 0
       THEN LET k == IndexAt(f, Arrow, i)
            IN IF k > 0
               THEN SubSeq(f, 1, i - 1) \o SubSeq(f, i + 1, k - 1)
                       \o SubSeq(f, j + 1, Len(f))
               ELSE <<>>
       ELSE IF IndexAt(f, Arrow, 1) > 0
            THEN SubSeq(f, 1, IndexAt(f, Arrow, 1) - 1)
            ELSE f

\* strconv.Atoi of the added and removed groups of a stats line; "-", which git
\* prints for a binary file, is no number and gives 0
Atoi(x) ==
    CASE x = "0" -> 0
      [] x = "1" -> 1
      [] x = "2" -> 2
      [] OTHER -> 0

\* an entry of j.CommitFiles without keys (the keys modes and indexes, which
\* nothing reads, are left out)
NoKeys ==
    [file |-> <<>>, hasAction |-> FALSE, action |-> "", newfile |-> <<>>,
     hasStats |-> FALSE, added |-> 0, removed |-> 0]

\* ParseAction: j.CommitFiles after the action line data
ParseAction(cf, data) ==
    LET fileName == data.file
        prev == IF fileName \in DOMAIN cf THEN cf[fileName] ELSE NoKeys
    IN Put(cf, fileName, [prev EXCEPT !.hasAction = TRUE, !.action = data.action,
                                      !.file = fileName, !.newfile = data.newfile])

\* ParseStats: j.CommitFiles after the stats line data
ParseStats(cf, data) ==
    LET fileName == ExtractPrevFileName(data.file)
        prev == IF fileName \in DOMAIN cf THEN cf[fileName]
                ELSE [NoKeys EXCEPT !.file = fileName]
    IN Put(cf, fileName, [prev EXCEPT !.hasStats = TRUE,
                                      !.added = prev.added + Atoi(data.added),
                                      !.removed = prev.removed + Atoi(data.removed)])

\* the order of the first bytes of the tokens; the names differ in their first
\* byte, so that two strings compare as the ranks of their tokens do
Rank(tok) ==
    CASE tok = Arrow -> 1
      [] tok = Slash -> 2
      [] tok = "Makefile" -> 3
      [] tok = "README.md" -> 4
      [] tok = "a" -> 5
      [] tok = "b" -> 6
      [] tok = "f.c" -> 7
      [] tok = "g.c" -> 8
      [] tok = "notes." -> 9
      [] tok = Open -> 10
      [] tok = Close -> 11

RECURSIVE Less(_, _)
\* p < q as strings
Less(p, q) ==
    IF p = <<>> THEN q # <<>>
    ELSE IF q = <<>> THEN FALSE
    ELSE IF Head(p) = Head(q) THEN Less(Tail(p), Tail(q))
    ELSE Rank(Head(p)) < Rank(Head(q))

RECURSIVE SortStrings(_)
\* sort.Strings of the strings S
SortStrings(S) ==
    IF S = {} THEN <<>>
    ELSE LET m == CHOOSE x \in S : \A y \in S \ {x} : Less(x, y)
         IN <<m>> \o SortStrings(S \ {m})

\* GitDocFilePattern.MatchString: of the tokens only README.md matches, and it
\* does at the end of a path (\.md$) and at its start (^readme)
GitDocFilePattern(f) ==
    f # <<>> /\ (f[Len(f)] = "README.md" \/ f[1] = "README.md")

\* the paths of files that are added, modified or deleted
PlainPaths == {<<"f.c">>, <<"a", Slash, "f.c">>, <<"README.md">>, <<"Makefile">>,
               <<"notes.">>}

\* the renames git -M reports: the old path, the new path, and the name the
\* numstat line prints for the pair
Renames ==
    {[old |-> <<"a", Slash, "f.c">>, new |-> <<"a", Slash, "b", Slash, "f.c">>,
      printed |-> <<"a", Slash, Open, Arrow, "b", Close, Slash, "f.c">>],
     [old |-> <<"a", Slash, "b", Slash, "f.c">>, new |-> <<"a", Slash, "f.c">>,
      printed |-> <<"a", Slash, Open, "b", Arrow, Close, Slash, "f.c">>],
     [old |-> <<"a", Slash, "f.c">>, new |-> <<"b", Slash, "f.c">>,
      printed |-> <<Open, "a", Arrow, "b", Close, Slash, "f.c">>],
     [old |-> <<"f.c">>, new |-> <<"g.c">>,
      printed |-> <<"f.c", Arrow, "g.c">>]}

\* the changes of one file by a commit
Changes ==
    [action : {"A", "M"}, old : PlainPaths, new : {<<>>}, added : {"1", "-"},
     removed : {"0"}]
    \cup {[action |-> "R100", old |-> r.old, new |-> r.new, added |-> a, removed |-> "1"] :
             r \in Renames, a \in {"0", "2"}}

\* the name the numstat line prints for a change
Printed(c) ==
    IF c.action = "R100"
    THEN (CHOOSE r \in Renames : r.old = c.old /\ r.new = c.new).printed
    ELSE c.old

\* the groups of the action line (GitActionPattern) and of the stats line
\* (GitStatsPattern) git prints for a change; old is the path the line is about
ActionLine(c) ==
    [kind |-> "action", action |-> c.action, file |-> c.old, newfile |-> c.new,
     added |-> "", removed |-> "", old |-> c.old]
StatsLine(c) ==
    [kind |-> "stats", action |-> "", file |-> Printed(c), newfile |-> <<>>,
     added |-> c.added, removed |-> c.removed, old |-> c.old]

\* the lists of changes of a commit: no path twice
ChangeLists ==
    {cs \in UNION {[1..n -> Changes] : n \in 0..MaxFiles} :
        \A i, k \in 1..Len(cs) : i # k => cs[i].old # cs[k].old}

\* the file sections git log --raw --numstat -M -c prints: for a commit with one
\* parent the action lines and then the stats lines of its changes; for a merge
\* the stats lines of the changes against the first parent, without action lines
FileSections ==
    {[i \in 1..Len(cs) |-> ActionLine(cs[i])] \o [i \in 1..Len(cs) |-> StatsLine(cs[i])] :
        cs \in ChangeLists}
    \cup {[i \in 1..Len(cs) |-> StatsLine(cs[i])] :
             cs \in {x \in ChangeLists : \A i \in 1..Len(x) : x[i].action # "R100"}}

\* BuildCommit: the files of j.CommitFiles in the order of their names, and
\* whether one of the names is that of a documentation file
BuildCommit(cf) ==
    LET sf == SortStrings(DOMAIN cf)
    IN [files |-> [i \in 1..Len(sf) |-> cf[sf[i]]],
        doc_commit |-> \E f \in DOMAIN cf : GitDocFilePattern(f)]

\* EnrichItem's file_data: the files that have an action
FileData(files) ==
    LET withAction == SeqFilter(files, {f \in Range(files) : f.hasAction})
    IN [i \in 1..Len(withAction) |->
           [action |-> withAction[i].action, name |-> withAction[i].file,
            added |-> withAction[i].added, removed |-> withAction[i].removed]]

\* the parts of a token that "." separates
DotParts(tok) ==
    CASE tok = "f.c" -> <<"f", "c">>
      [] tok = "g.c" -> <<"g", "c">>
      [] tok = "README.md" -> <<"README", "md">>
      [] tok = "notes." -> <<"notes", "">>
      [] OTHER -> <<tok>>

UnknownExtension == "UNKNOWN"

\* ParseFileExtension: what follows the last "." of the name, the whole name
\* when it has none, and UnknownExtension when that is empty
ParseFileExtension(filename) ==
    LET dotted == {i \in 1..Len(filename) : Len(DotParts(filename[i])) > 1}
        extension ==
            IF dotted = {} THEN filename
            ELSE LET i == CHOOSE x \in dotted : \A y \in dotted : y <= x
                     last == DotParts(filename[i])[Len(DotParts(filename[i]))]
                 IN (IF last = "" THEN <<>> ELSE <<last>>)
                       \o SubSeq(filename, i + 1, Len(filename))
    IN IF extension = <<>> THEN <<UnknownExtension>> ELSE extension

RECURSIVE SumSeq(_)
\* the sum of the numbers of s
SumSeq(s) == IF s = <<>> THEN 0 ELSE Head(s) + SumSeq(Tail(s))

\* GetModelData: the entries of fileCache, one for each extension of fileAry
FilesByType(fileAry) ==
    LET named == SeqFilter(fileAry, {f \in Range(fileAry) : f.name # <<>>})
        of(ext) == SeqFilter(named, {f \in Range(named) : ParseFileExtension(f.name) = ext})
        count(ext, actions) ==
            Len(SeqFilter(of(ext), {f \in Range(named) : f.action \in actions}))
    IN {[Type |-> ext,
         LinesAdded |-> SumSeq([i \in 1..Len(of(ext)) |-> of(ext)[i].added]),
         LinesRemoved |-> SumSeq([i \in 1..Len(of(ext)) |-> of(ext)[i].removed]),
         FilesCreated |-> Len(of(ext)) - count(ext, {"M", "D"}),
         FilesModified |-> count(ext, {"M"}),
         FilesDeleted |-> count(ext, {"D"})] :
            ext \in {ParseFileExtension(f.name) : f \in Range(named)}}

\* ------------------------------------------------ enrichment of one commit
\* A string is a sequence of tokens.  Its tokens are separated by one space,
\* except that Comma follows the token before it without a space.  The tokens
\* of Emails are the only ones that hold "<", "@" and ">".
Comma == ","
And == "and"
Emails == {"<a@x>", "<b@x>", "<d@x>"}
TrailingEmail == "<b@x>"

\* most authors of an Author field
MaxAuthors == 3

\* the names of the Author field: of two words, of one word, and of two words
\* with an email
Persons ==
    {<<"Ann", "Lee">>, <<"Bob", "Ray">>, <<"Cy">>, <<"Di">>, <<"Ann", "Lee", "<a@x>">>}

\* strings.Contains(s, "<") && strings.Contains(s, "@") && strings.Contains(s, ">")
HasEmail(s) == \E i \in 1..Len(s) : s[i] \in Emails

\* whether s holds a space
HasSpace(s) == \E i \in 2..Len(s) : s[i] # Comma

RECURSIVE Join(_)
\* the Author field <A1>, <A2>, ... and <An> <email> of the names ps
Join(ps) ==
    IF Len(ps) = 1 THEN ps[1]
    ELSE IF Len(ps) = 2 THEN ps[1] \o <<And>> \o ps[2]
    ELSE ps[1] \o <<Comma>> \o Join(Tail(ps))

AuthorField(ps) ==
    IF Len(ps) = 1 /\ HasEmail(ps[1]) THEN ps[1] ELSE Join(ps) \o <<TrailingEmail>>

\* the lists of names of an Author field: no name twice, and only a single name
\* or a name before the last may bring its own email
AuthorLists ==
    {q \in UNION {[1..n -> Persons] : n \in 1..MaxAuthors} :
        /\ ~HasEmail(q[Len(q)]) \/ Len(q) = 1
        /\ \A i, k \in 1..Len(q) : i # k => q[i] # q[k]}

AuthorFields == {AuthorField(ps) : ps \in AuthorLists}

\* shared.MatchGroups(GitAuthorsPattern, s): the groups of
\* (.* .*) and (.* .*) (.*), or <<>> when s does not match.  Every quantifier
\* is greedy: the last " and " that leaves a match is taken, and the email is
\* what follows the last space.
GitAuthorsPattern(s) ==
    LET n == Len(s)
        \* the last space of s is before token lastSp(k), when it lies after k + 1
        fits(k) == /\ s[k] = And
                   /\ k > 1
                   /\ HasSpace(SubSeq(s, 1, k - 1))
                   /\ k < n
                   /\ s[k + 1] # Comma
                   /\ \E a, b \in (k + 2)..n : a < b /\ s[a] # Comma /\ s[b] # Comma
        ks == {k \in 1..n : fits(k)}
    IN IF ks = {} THEN <<>>
       ELSE LET k == CHOOSE x \in ks : \A y \in ks : y <= x
                b == CHOOSE x \in (k + 2)..n :
                        s[x] # Comma /\ \A y \in (x + 1)..n : s[y] = Comma
            IN <<[first_authors |-> SubSeq(s, 1, k - 1),
                  last_author |-> SubSeq(s, k + 1, b - 1),
                  email |-> SubSeq(s, b, n)]>>

RECURSIVE SplitComma(_)
\* strings.Split(s, ","), each part trimmed
SplitComma(s) ==
    IF \A i \in 1..Len(s) : s[i] # Comma THEN <<s>>
    ELSE LET i == CHOOSE x \in 1..Len(s) : s[x] = Comma /\ \A y \in 1..(x - 1) : s[y] # Comma
         IN <<SubSeq(s, 1, i - 1)>> \o SplitComma(SubSeq(s, i + 1, Len(s)))

\* GetAuthors for the groups m of GitAuthorsPattern (no Co-authored-by groups):
\* the authors and the first of them
GetAuthors(m) ==
    LET email == IF HasEmail(m.email) THEN m.email ELSE <<>>
        withEmail(auth) == IF email # <<>> /\ ~HasEmail(auth) THEN auth \o email ELSE auth
        firsts == SplitComma(m.first_authors)
        all == [i \in 1..Len(firsts) |-> withEmail(firsts[i])]
                  \o <<withEmail(m.last_author)>>
    IN [authors |-> Range(all), author |-> all[1]]

\* GetAuthorsData in pair programming mode, for a field that is present
GetAuthorsData(field) ==
    LET m1 == GitAuthorsPattern(field)
    IN IF m1 # <<>> THEN GetAuthors(m1[1])
       ELSE [authors |-> {field}, author |-> field]

\* IdentityFromGitAuthor: the name before the first "<", no username, the email
\* between "<" and ">"
IdentityFromGitAuthor(author) ==
    IF HasEmail(author)
    THEN LET i == CHOOSE x \in 1..Len(author) :
                     author[x] \in Emails /\ \A y \in 1..(x - 1) : author[y] \notin Emails
         IN <<SubSeq(author, 1, i - 1), "", author[i]>>
    ELSE <<author, "", "">>

\* GitTrailerOtherAuthors: trailer name -> rich key and role
GitTrailerOtherAuthors ==
    [k \in {"Signed-off-by", "Co-authored-by", "Tested-by", "Approved-by", "Reviewed-by",
            "Reported-by", "Informed-by", "Resolved-by", "Influenced-by"} |->
        CASE k = "Signed-off-by" -> <<"authors_signed", "signer">>
          [] k = "Co-authored-by" -> <<"authors_co_authored", "co_author">>
          [] k = "Tested-by" -> <<"authors_tested", "tester">>
          [] k = "Approved-by" -> <<"authors_approved", "approver">>
          [] k = "Reviewed-by" -> <<"authors_reviewed", "reviewer">>
          [] k = "Reported-by" -> <<"authors_reported", "reporter">>
          [] k = "Informed-by" -> <<"authors_informed", "informer">>
          [] k = "Resolved-by" -> <<"authors_resolved", "resolver">>
          [] k = "Influenced-by" -> <<"authors_influenced", "influencer">>]

\* GitTrailerSameAsAuthor: whether a trailer may name the commit's author
GitTrailerSameAsAuthor ==
    [k \in DOMAIN GitTrailerOtherAuthors |->
        k \notin {"Co-authored-by", "Approved-by", "Reviewed-by"}]

\* the trailers an item may carry, and the values of a trailer
ItemTrailers == {"Co-authored-by", "Reviewed-by", "Signed-off-by"}
TrailerValues == {<<"Ann", "Lee", "<b@x>">>, <<"Bob", "Ray", "<b@x>">>}

\* the raw items: the Author and Commit headers and the trailers of a commit
\* without files; a trailer holds the list of its values
Items ==
    [Author : AuthorFields,
     Commit : {<<"Dan", "Fox", "<d@x>">>},
     Trailers : [ItemTrailers -> {<<>>} \cup {<<v>> : v \in TrailerValues}],
     files : {<<>>},
     doc_commit : {FALSE}]

\* GetOtherTrailersAuthors for the data of an item, whose Author is commitAuthor:
\* value of a trailer -> the rich keys and roles it has
GetOtherTrailersAuthors(trailers, commitAuthor) ==
    LET kept(k) == {v \in Range(trailers[k]) :
                       ~(~GitTrailerSameAsAuthor[k] /\ v = commitAuthor)}
        others == UNION {kept(k) : k \in DOMAIN trailers}
    IN [v \in others |->
           {GitTrailerOtherAuthors[k] : k \in {x \in DOMAIN trailers : v \in kept(x)}}]

\* the orders in which range may go over the keys S of a map
Orders(S) ==
    {o \in [1..Cardinality(S) -> S] : \A i, k \in DOMAIN o : i # k => o[i] # o[k]}

\* the results getRichItem may give for the item it: in pair programming mode
\* the authors and committers of GetAuthorsData, then EnrichItem's idents and
\* ident_types, in the order the maps are gone over
RichItems(it) ==
    LET a == GetAuthorsData(it.Author)
        c == GetAuthorsData(it.Commit)
        othersMap == GetOtherTrailersAuthors(it.Trailers, a.author)
        entries(order, type) ==
            [i \in 1..Len(order) |-> [ident |-> IdentityFromGitAuthor(order[i]),
                                      type |-> type]]
        ofRoles(v, roles) ==
            [i \in 1..Len(roles) |-> [ident |-> IdentityFromGitAuthor(v),
                                      type |-> roles[i][2]]]
        RECURSIVE otherEntries(_)
        otherEntries(S) ==
            IF S = {} THEN {<<>>}
            ELSE UNION {{ofRoles(v, ro) \o rest : ro \in Orders(othersMap[v]),
                                                  rest \in otherEntries(S \ {v})} :
                           v \in S}
    IN {[Author |-> a.author,
         idents |-> [i \in 1..Len(e) |-> e[i].ident],
         ident_types |-> [i \in 1..Len(e) |-> e[i].type],
         file_data |-> FileData(it.files),
         doc_commit |-> it.doc_commit] :
            e \in {ao \o co \o oe : ao \in {entries(o, "author") : o \in Orders(a.authors)},
                                    co \in {entries(o, "committer") : o \in Orders(c.authors)},
                                    oe \in otherEntries(DOMAIN othersMap)}}

\* user.GenerateIdentity: the id of an identity is made of its source, email,
\* name and username
GenerateIdentity(email, name, username) == <<"identity", email, name, username>>

\* a weight is a fraction <<numerator, denominator>>
One == <<1, 1>>

\* the Contributor GetModelData makes of ident number i
commitRole(r, i) ==
    LET nCoAuthors == Cardinality({k \in 1..Len(r.ident_types) :
                                      r.ident_types[k] \in {"co_author", "author"}})
        ppCoAuthorWeight == IF nCoAuthors > 1 THEN <<1, nCoAuthors>> ELSE One
        identType == r.ident_types[i]
    IN [Role |-> identType,
        Weight |-> IF identType \in {"co_author", "author"} THEN ppCoAuthorWeight ELSE One,
        Identity |-> [ID |-> GenerateIdentity(r.idents[i][3], r.idents[i][1], ""),
                      Email |-> r.idents[i][3],
                      Name |-> r.idents[i][1],
                      Username |-> ""]]

commitRoles(r) == [i \in 1..Len(r.ident_types) |-> commitRole(r, i)]

\* shared.DedupContributors: of the contributors with one role and one identity
\* id the first is kept
DedupContributors(cs) ==
    LET RECURSIVE keepFirst(_, _)
        keepFirst(rest, keys) ==
            IF rest = <<>> THEN <<>>
            ELSE LET key == <<Head(rest).Role, Head(rest).Identity.ID>>
                 IN IF key \in keys THEN keepFirst(Tail(rest), keys)
                    ELSE <<Head(rest)>> \o keepFirst(Tail(rest), keys \cup {key})
    IN keepFirst(cs, {})

\* a dedupAuthors that removes nothing
dedupAuthorsKeepsAll(inContributors) == inContributors

\* dedupAuthors: a co_author whose identity id is that of an author is left out
dedupAuthors(inContributors) ==
    LET authors == {c.Identity.ID : c \in {x \in Range(inContributors) : x.Role = "author"}}
    IN SeqFilter(inContributors,
                 {c \in Range(inContributors) :
                     c.Role # "co_author" \/ c.Identity.ID \notin authors})

\* commit.Contributors of GetModelData
Contributors(r) == dedupAuthors(DedupContributors(commitRoles(r)))

\* one raw item is taken; there is no repository and no run of main
EnrichInit ==
    /\ item \in {<<it>> : it \in Items}
    /\ rich = <<>>
    /\ emitted = <<>>
    /\ NoParsing
    /\ hist = {}
    /\ dates = <<>>
    /\ ProcessStart
    /\ NoCommitURL
    /\ NoThreads
    /\ NoWindows
    /\ NoBranch
    /\ NoLog

\* getRichItem of GitEnrichItems, with EnrichItem
getRichItem ==
    /\ item # <<>>
    /\ rich = <<>>
    /\ rich' \in {<<r>> : r \in RichItems(item[1])}
    /\ UNCHANGED <<item, emitted, lines, CurrLine, CommitFiles, outsideEnrich>>

\* GetModelData for the one rich item: its contributors, its files by
\* extension in the order fileCache is gone over, merge_commit and doc_commit
GetModelData ==
    /\ rich # <<>>
    /\ emitted = <<>>
    /\ emitted' \in {<<[Contributors |-> Contributors(rich[1]),
                          Files |-> fs,
                          MergeCommit |-> Len(rich[1].file_data) = 0,
                          DocCommit |-> rich[1].doc_commit]>> :
                           fs \in Orders(FilesByType(rich[1].file_data))}
    /\ UNCHANGED <<item, rich, lines, CurrLine, CommitFiles, outsideEnrich>>

EnrichNext ==
    \/ getRichItem
    \/ GetModelData

EnrichSpec == EnrichInit /\ [][EnrichNext]_vars

\* a file section is taken; there is no repository and no run of main
FileSectionInit ==
    /\ lines \in FileSections
    /\ CurrLine = 1
    /\ CommitFiles = EmptyMap
    /\ item = <<>>
    /\ rich = <<>>
    /\ emitted = <<>>
    /\ hist = {}
    /\ dates = <<>>
    /\ ProcessStart
    /\ NoCommitURL
    /\ NoThreads
    /\ NoWindows
    /\ NoBranch
    /\ NoLog

\* ParseFile for the next line of the file section: ParseAction for an action
\* line, ParseStats for a stats line
ParseFile ==
    /\ item = <<>>
    /\ CurrLine <= Len(lines)
    /\ CommitFiles' = IF lines[CurrLine].kind = "action"
                      THEN ParseAction(CommitFiles, lines[CurrLine])
                      ELSE ParseStats(CommitFiles, lines[CurrLine])
    /\ CurrLine' = CurrLine + 1
    /\ UNCHANGED <<lines, item, rich, emitted, outsideEnrich>>

\* ParseNextCommit at the empty line that ends the file section: BuildCommit
\* gives the commit, which becomes the data of a raw item; its headers are
\* those of one author and it has no trailers
ParseNextCommit ==
    /\ item = <<>>
    /\ CurrLine > Len(lines)
    /\ item' = <<[Author |-> <<"Ann", "Lee", "<a@x>">>,
                  Commit |-> <<"Dan", "Fox", "<d@x>">>,
                  Trailers |-> [k \in ItemTrailers |-> <<>>],
                  files |-> BuildCommit(CommitFiles).files,
                  doc_commit |-> BuildCommit(CommitFiles).doc_commit]>>
    /\ CommitFiles' = EmptyMap
    /\ UNCHANGED <<lines, CurrLine, rich, emitted, outsideEnrich>>

ParseNext ==
    \/ ParseFile
    \/ ParseNextCommit
    \/ getRichItem
    \/ GetModelData

ParseSpec == FileSectionInit /\ [][ParseNext]_vars


\* ----------------------------------------------------------------- claims
\* the hashes held by the entries of a cache map
HashesOf(cc) == {cc[k].Hash : k \in DOMAIN cc}

\* the entity ids carried by the entries of a cache map
EntityIDsOf(cc) == {cc[k].EntityID : k \in DOMAIN cc}

\* the hashes held by the rows of the persisted cache: commits-cache.csv and
\* the half-year shards
PersistedHashes ==
    {r.Hash : r \in cacheFile} \cup UNION {{r.Hash : r \in shardFiles[h]} : h \in Halves}

\* the PushEvents calls the step adds to pushes
NewPushes == IF Len(pushes') > Len(pushes)
             THEN {pushes'[i] : i \in (Len(pushes) + 1)..Len(pushes')}
             ELSE {}

\* the hash of the commit sha as this run enriches it
HashOfSha(sha) == createHash(Payload(sha, msgRev, OrphanedMap))

\* the events of the successful pushes of the run, each with its place
Published == {<<i, j>> \in (1..Len(pushes)) \X (1..MaxCommits * 4) :
                 pushes[i].ok /\ j <= Len(pushes[i].events)}

AllPushesOk == \A i \in 1..Len(pushes) : pushes[i].ok

\* C1: a commit whose content hash is in the cache when its pack is flushed,
\* held by an entry in memory (loaded, or written earlier in the run) or by a
\* row an earlier run persisted, is not placed in a commit.created batch.
C1_CachedHashNeverCreated ==
    [][\A p \in NewPushes :
         p.type = CommitCreated =>
            \A e \in Range(p.events) :
                createHash(e) \notin HashesOf(cachedCommits) \cup PersistedHashes]_vars

\* C1, the failing case: a run that repeats a complete run of a hot repository
\* has published a commit.created batch.
C1_HotRerunCreatesAgain ==
    /\ rerun
    /\ IsHotRep
    /\ AllPushesOk
    /\ \E i \in 1..Len(pushes) : pushes[i].type = CommitCreated

\* C2: a run that repeats the previous, complete run over unchanged history
\* publishes no event.
C2_RerunPublishesNothing ==
    rerun => \A i \in 1..Len(pushes) : ~pushes[i].ok

\* C2, the failing case: the repeated run of a repository that is not hot has
\* published, from the reconciliation, an event for a commit of the history.
C2_RerunRepublishesReachable ==
    /\ rerun
    /\ ~IsHotRep
    /\ \E i \in 1..Len(pushes) :
          /\ pushes[i].ok
          /\ pushes[i].by = "handleDataLakeOrphans"
          /\ \E e \in Range(pushes[i].events) : e.SHA \in hist

\* C3: within one run no two published events carry the same commit id.
C3_EventIdsUnique ==
    \A x, y \in Published :
        x # y => pushes[x[1]].events[x[2]].ID # pushes[y[1]].events[y[2]].ID

\* C3, the failing case: in a first run whose publishes all succeeded, two
\* published events carry the same commit id.
C3_SameIdTwiceInCleanRun ==
    /\ runs = 1
    /\ AllPushesOk
    /\ \E x, y \in Published :
          x # y /\ pushes[x[1]].events[x[2]].ID = pushes[y[1]].events[y[2]].ID

\* a commit that is no longer in the history or that the orphan detector named
IsOrphan(sha) == sha \notin hist \/ sha \in OrphanedMap

\* C4: after handleDataLakeOrphans of a run with LAST_SYNC set, every cache
\* entry marked orphaned and every commit republished as orphaned is absent from
\* the history or was named by the orphan detector.
C4_OrphanedOnlyIfUnreachable ==
    (pc = "return" /\ lastSync # NoLastSync) =>
        /\ \A k \in DOMAIN cachedCommits :
              cachedCommits[k].Orphaned => IsOrphan(cachedCommits[k].SourceEntityID)
        /\ \A i \in 1..Len(pushes) :
              pushes[i].by = "handleDataLakeOrphans" =>
                 \A e \in Range(pushes[i].events) : IsOrphan(e.SHA)

\* C4, the failing case: the repeated run started after the date of a commit
\* of the history that the cache holds, and ends with its entry marked orphaned.
C4_SkippedCommitLeftOrphaned ==
    /\ pc = "return"
    /\ lastSync # NoLastSync
    /\ rerun
    /\ \E k \in DOMAIN cachedCommits :
          /\ cachedCommits[k].Orphaned
          /\ cachedCommits[k].SourceEntityID \in hist
          /\ cachedCommits[k].SourceEntityID \notin seen
          /\ dates[cachedCommits[k].SourceEntityID] < StartDate

\* the calls of PushEvents made by the reconciliation
OrphanPushes == {i \in 1..Len(pushes) : pushes[i].by = "handleDataLakeOrphans"}

\* the cache entries marked orphaned
OrphanedKeys == {k \in DOMAIN cachedCommits : cachedCommits[k].Orphaned}

\* C5: with LAST_SYNC set the reconciliation hands the publisher exactly one
\* commit.updated event, with orphaned set, for each cache entry still marked
\* orphaned when commit processing ended; with LAST_SYNC unset it publishes
\* nothing.
C5_OneUpdatePerOrphanedEntry ==
    pc = "return" =>
        IF lastSync = NoLastSync \/ OrphanedKeys = {}
        THEN OrphanPushes = {}
        ELSE \E i \in OrphanPushes :
                /\ OrphanPushes = {i}
                /\ pushes[i].type = CommitUpdated
                /\ Len(pushes[i].events) = Cardinality(OrphanedKeys)
                /\ {createHash(e) : e \in Range(pushes[i].events)}
                      = {cachedCommits[k].Hash : k \in OrphanedKeys}
                /\ \A e \in Range(pushes[i].events) : e.Orphaned

\* C5, the failing case: the repeated run of a hot repository, its publishes
\* all successful, ends the reconciliation with entries marked orphaned and no
\* event handed to the publisher for them.
C5_HotOrphansNotPublished ==
    /\ pc = "return"
    /\ lastSync # NoLastSync
    /\ IsHotRep
    /\ rerun
    /\ AllPushesOk
    /\ OrphanedKeys # {}
    /\ OrphanPushes = {}

\* C6: when PushEvents fails for a pack, SyncV2 returns an error (and main then
\* writes failed, never done).
C6_PublishFailureSurfaces ==
    (pc = "finish" /\ \E i \in 1..Len(pushes) :
                         pushes[i].by = "outputDocs" /\ ~pushes[i].ok)
        => syncErr

\* C6, the failing case: a run in which the publish of a pack failed has ended
\* with done.
C6_DoneAfterFailedPublish ==
    /\ pc = "idle"
    /\ \E i \in 1..Len(pushes) : pushes[i].by = "outputDocs" /\ ~pushes[i].ok
    /\ Len(statusLog) = 2
    /\ statusLog[2] = LogEntry(Done, TRUE)

\* C7: a flush whose first publish fails leaves cachedCommits,
\* CachedCommitsUpdates and createdCommits as they were.
C7_NoCacheMutationOnFailedPublish ==
    [][(Len(pushes') > Len(pushes)
          /\ pushes'[Len(pushes) + 1].by = "outputDocs"
          /\ ~pushes'[Len(pushes) + 1].ok)
       => /\ cachedCommits' = cachedCommits
          /\ CachedCommitsUpdates' = CachedCommitsUpdates
          /\ createdCommits' = createdCommits]_vars

\* C7, the failing case: the first run, which loads nothing, has made one
\* publish, which failed, and createdCommits holds an id.
C7_CreatedSetAfterFailedPublish ==
    /\ runs = 1
    /\ Len(pushes) = 1
    /\ ~pushes[1].ok
    /\ createdCommits # {}

\* C8: the first WriteLog call of a run writes in_progress, and the sync runs
\* only after it succeeded and before any other call; a run makes at most one
\* more call; when SyncV2 has returned, main makes exactly one more call, with
\* failed if and only if it returned an error and with done if and only if it
\* did not.
C8_StatusProtocol ==
    /\ [](/\ runs >= 1 => /\ Len(statusLog) >= 1
                          /\ statusLog[1].status = InProgress
          /\ pc # "idle" => statusLog = <<LogEntry(InProgress, TRUE)>>
          /\ Len(statusLog) <= 2
          /\ Len(statusLog) = 2 =>
                /\ statusLog[2].status \in {Failed, Done}
                /\ statusLog[2].status = Failed <=> syncErr
                /\ statusLog[2].status = Done <=> ~syncErr)
    /\ [][pc = "finish" =>
             /\ Len(statusLog') = Len(statusLog) + 1
             /\ statusLog'[Len(statusLog')].status = (IF syncErr THEN Failed ELSE Done)
             /\ syncErr' = syncErr]_vars

\* C8 witness: a run whose sync returned an error has ended with failed.
C8_Witness ==
    /\ pc = "idle"
    /\ Len(statusLog) = 2
    /\ syncErr
    /\ statusLog[2].status = Failed

C10_OrphanFlagLifecycle ==
    lastSync # NoLastSync =>
        /\ (pc = "windows" /\ seen = {} /\ pushes = <<>>) =>
              \A k \in DOMAIN cachedCommits : cachedCommits[k].Orphaned
        /\ pc = "reconcile" =>
              \A k \in loaded \cap DOMAIN cachedCommits :
                  (\E s \in seen : HashOfSha(s) = cachedCommits[k].Hash)
                     => ~cachedCommits[k].Orphaned

\* C10, the failing case: in a hot repository whose publishes all succeeded, a
\* loaded entry whose commit the flush met again is marked orphaned when commit
\* processing has ended.
C10_HotEntryOrphanedAgain ==
    /\ lastSync # NoLastSync
    /\ pc = "reconcile"
    /\ IsHotRep
    /\ AllPushesOk
    /\ \E k \in loaded \cap DOMAIN cachedCommits :
          /\ cachedCommits[k].Orphaned
          /\ \E s \in seen : HashOfSha(s) = cachedCommits[k].Hash

\* the rows of every cache file of the object store
PersistedRows ==
    cacheFile \cup updateFile \cup UNION {shardFiles[h] : h \in Halves}

\* C11: when the publish of the reconciliation has succeeded, a cache file of
\* the object store holds, for every republished commit, a row with its hash,
\* the path that publish returned and empty content.
C11_ReconciliationPersisted ==
    pc = "return" =>
        \A i \in OrphanPushes :
            pushes[i].ok =>
                \A e \in Range(pushes[i].events) :
                    \E r \in PersistedRows :
                        /\ r.Hash = createHash(e)
                        /\ r.FileLocation = pushes[i].path
                        /\ r.Content = NoContent

\* C11, the failing case: after a successful reconciliation publish the entry
\* of a republished commit carries the new path and empty content in
\* cachedCommits, and no row of any cache file carries that path.
C11_StampOnlyInMemory ==
    /\ pc = "return"
    /\ \E i \in OrphanPushes :
          /\ pushes[i].ok
          /\ \E e \in Range(pushes[i].events) :
                /\ createHash(e) \in DOMAIN cachedCommits
                /\ cachedCommits[createHash(e)].FileLocation = pushes[i].path
                /\ cachedCommits[createHash(e)].Content = NoContent
                /\ \A r \in PersistedRows : r.FileLocation # pushes[i].path

\* C12: every row of a half-year shard file belongs to a commit whose date lies
\* in that half-year.
C12_ShardHoldsOwnHalfOnly ==
    \A h \in Halves :
        \A r \in shardFiles[h] : getDateYearHalf(dates[r.SourceEntityID]) = h

\* C12, the failing case: in the first run of a hot repository, its publishes
\* all successful, the shard of the later half-year holds the row of a commit
\* of the earlier half-year, which the shard of the earlier half-year holds too.
C12_EarlierEntriesInNextShard ==
    /\ runs = 1
    /\ IsHotRep
    /\ AllPushesOk
    /\ \E r \in shardFiles[1] :
          /\ getDateYearHalf(dates[r.SourceEntityID]) = 0
          /\ r \in shardFiles[0]

\* the calls of PushEvents made by outputDocs
PackPushes == {i \in 1..Len(pushes) : pushes[i].by = "outputDocs"}

\* C13: the buffer of enriched documents holds fewer than PackSize documents
\* whenever a flush attempt is over, and no PushEvents call of outputDocs carries
\* more than PackSize events.
C13_PackBound ==
    /\ Len(allDocs) < PackSize
    /\ \A i \in PackPushes : Len(pushes[i].events) <= PackSize

\* C13, the failing case: a publish of a full buffer failed, the buffer kept its
\* PackSize documents, and the next flush handed PushEvents more than PackSize
\* events in one call.
C13_OversizedPushAfterFailure ==
    \E i, k \in PackPushes :
        /\ i < k
        /\ ~pushes[i].ok
        /\ Len(pushes[i].events) = PackSize
        /\ Len(pushes[k].events) > PackSize

\* C14: when the enrichment of a commit has failed, SyncV2 still ends without
\* error, and every other commit of the history dated no earlier than the
\* failed one has been enriched and handed to the pack flush.
C14_FailedEnrichmentIsSkipped ==
    (pc = "finish" /\ enrichFailed # {}) =>
        /\ ~syncErr
        /\ \A f \in enrichFailed :
              \A s \in hist \ enrichFailed : dates[s] >= dates[f] => s \in seen

\* C14, the failing case: the enrichment of one commit of a full pack failed in
\* a run whose publishes all succeeded; SyncV2 returned the error, and a later
\* commit of the history was never handed to the pack flush.
C14_RunAbortedByFailedEnrichment ==
    /\ pc = "finish"
    /\ runs = 1
    /\ AllPushesOk
    /\ Cardinality(enrichFailed) = 1
    /\ syncErr
    /\ \E f \in enrichFailed :
          \E s \in hist : dates[s] > dates[f] /\ s \notin seen

\* ------------------------------------------------ claims on the enrichment
\* the contributors of the emitted commit that have the role
WithRole(role) ==
    {i \in 1..Len(emitted[1].Contributors) : emitted[1].Contributors[i].Role = role}

\* C15: in an emitted commit with N contributors of role author each of them
\* has weight 1/N, and every contributor of another role has weight 1.
C15_AuthorWeights ==
    emitted # <<>> =>
        LET cs == emitted[1].Contributors
            N == Cardinality(WithRole("author"))
        IN \A i \in 1..Len(cs) :
              cs[i].Weight = IF cs[i].Role = "author" THEN <<1, N>> ELSE One

\* C15, the failing case: a commit of one author with a Co-authored-by trailer
\* of somebody else is emitted with weight 1/2 for its only author and weight
\* 1/2 for the co_author.
C15_CoAuthorSharesTheWeight ==
    /\ emitted # <<>>
    /\ Cardinality(WithRole("author")) = 1
    /\ Cardinality(WithRole("co_author")) = 1
    /\ \A i \in WithRole("author") \cup WithRole("co_author") :
          emitted[1].Contributors[i].Weight = <<1, 2>>

\* the identity ids of the emitted contributors that have the role
IdsWithRole(role) == {emitted[1].Contributors[i].Identity.ID : i \in WithRole(role)}

\* C16: in an emitted commit no co_author, approver or reviewer has the identity
\* of an author, and a trailer that may name the author (Signed-off-by and the
\* like) and does name an author is kept as a contributor of its role.
C16_NoReviewerSameAsAuthor ==
    emitted # <<>> =>
        /\ \A role \in {"co_author", "approver", "reviewer"} :
              IdsWithRole(role) \cap IdsWithRole("author") = {}
        /\ \A k \in DOMAIN item[1].Trailers :
              GitTrailerSameAsAuthor[k] =>
                  \A v \in Range(item[1].Trailers[k]) :
                      LET id == IdentityFromGitAuthor(v)
                      IN GenerateIdentity(id[3], id[1], "")
                            \in IdsWithRole(GitTrailerOtherAuthors[k][2])

\* C16, the failing case: the Author field names two authors and a Reviewed-by
\* trailer names the second of them; the commit is emitted with a reviewer that
\* has the identity of an author.
C16_SecondAuthorIsReviewer ==
    /\ emitted # <<>>
    /\ Cardinality(WithRole("author")) = 2
    /\ item[1].Trailers["Co-authored-by"] = <<>>
    /\ item[1].Trailers["Signed-off-by"] = <<>>
    /\ IdsWithRole("reviewer") # {}
    /\ IdsWithRole("reviewer") \subseteq IdsWithRole("author")

\* the contributors handed to dedupAuthors for the rich item
DedupInput == DedupContributors(commitRoles(rich[1]))

\* the entries of cs whose role is not co_author, in their order
NotCoAuthors(cs) == SeqFilter(cs, {c \in Range(cs) : c.Role # "co_author"})

\* C17: the contributors of an emitted commit hold no co_author whose identity
\* id is that of one of their authors, and the entries of every other role are
\* those handed to dedupAuthors, in the same order.
C17_AuthorsSupersedeCoAuthors ==
    emitted # <<>> =>
        /\ IdsWithRole("co_author") \cap IdsWithRole("author") = {}
        /\ NotCoAuthors(emitted[1].Contributors) = NotCoAuthors(DedupInput)

\* C17, its case: dedupAuthors was handed a co_author with the identity id of an
\* author, next to entries of other roles, and the commit has been emitted.
C17_Witness ==
    /\ emitted # <<>>
    /\ \E i, k \in 1..Len(DedupInput) :
          /\ DedupInput[i].Role = "co_author"
          /\ DedupInput[k].Role = "author"
          /\ DedupInput[i].Identity.ID = DedupInput[k].Identity.ID
    /\ \E i \in 1..Len(DedupInput) : DedupInput[i].Role = "signer"

\* the name and the email of a name of the Author field, the email being the
\* trailing one when the name brings none
NameOf(p) == SeqFilter(p, Range(p) \ Emails)
EmailOf(p) == IF HasEmail(p) THEN p[Len(p)] ELSE TrailingEmail

\* C20: a commit without trailers whose Author field is <A1>, <A2>, ... and
\* <An> <email>, n >= 2, is emitted with n author contributors, one for each
\* name, a name without an email of its own having the trailing email, each of
\* weight 1/n.
C20_PairProgrammingAuthors ==
    emitted # <<>> =>
        \A ps \in AuthorLists :
            (/\ Len(ps) >= 2
             /\ item[1].Author = AuthorField(ps)
             /\ \A k \in DOMAIN item[1].Trailers : item[1].Trailers[k] = <<>>) =>
                /\ Cardinality(WithRole("author")) = Len(ps)
                /\ {<<emitted[1].Contributors[i].Identity.Name,
                      emitted[1].Contributors[i].Identity.Email,
                      emitted[1].Contributors[i].Weight>> : i \in WithRole("author")}
                     = {<<NameOf(ps[i]), EmailOf(ps[i]), <<1, Len(ps)>>>> : i \in 1..Len(ps)}

\* C20, the failing case: the Author field "Cy and Di <b@x>" of a commit without
\* trailers is emitted as the one author "Cy and Di" of weight 1.
C20_TwoNamesOneAuthor ==
    /\ emitted # <<>>
    /\ item[1].Author = AuthorField(<<<<"Cy">>, <<"Di">>>>)
    /\ \A k \in DOMAIN item[1].Trailers : item[1].Trailers[k] = <<>>
    /\ \A i \in WithRole("author") :
          /\ emitted[1].Contributors[i].Identity.Name = <<"Cy", And, "Di">>
          /\ emitted[1].Contributors[i].Weight = One
    /\ Cardinality(WithRole("author")) = 1

\* ------------------------------------------------ claims on the file section
\* C18: a commit is emitted with merge_commit = true exactly when the parsed
\* commit has no file entry, and a commit emitted with merge_commit = true has
\* doc_commit = false and an empty list of files.
C18_MergeCommitIffNoFiles ==
    emitted # <<>> =>
        /\ emitted[1].MergeCommit <=> (Len(item[1].files) = 0)
        /\ emitted[1].MergeCommit =>
              (~emitted[1].DocCommit /\ emitted[1].Files = <<>>)

\* C18, the failing case: the file section of a merge holds the stats line of
\* README.md and no action line; the commit has that file entry and is emitted
\* with merge_commit = true and doc_commit = true.
C18_MergeOfADocFile ==
    /\ emitted # <<>>
    /\ Len(lines) = 1
    /\ lines[1].kind = "stats"
    /\ lines[1].file = <<"README.md">>
    /\ Len(item[1].files) = 1
    /\ emitted[1].MergeCommit
    /\ emitted[1].DocCommit

\* the file section is that of a commit with one parent: every stats line comes
\* with the action line of its file
OneParentSection ==
    \A i \in 1..Len(lines) :
        lines[i].kind = "stats" =>
            \E k \in 1..Len(lines) : lines[k].kind = "action" /\ lines[k].old = lines[i].old

\* the lines of a kind that are about the file whose old path is f
LinesAbout(f, kind) ==
    SeqFilter(lines, {l \in Range(lines) : l.kind = kind /\ l.old = f})

\* C19: the commit built from the file section of a commit with one parent has
\* exactly one file record for each file, renamed or not, under the path the
\* file had before the commit, with the action of its action line and the sum
\* of the counts of its stats lines.
C19_OneRecordPerOriginalPath ==
    (item # <<>> /\ OneParentSection) =>
        LET files == item[1].files
        IN /\ {files[i].file : i \in 1..Len(files)} = {l.old : l \in Range(lines)}
           /\ Len(files) = Cardinality({l.old : l \in Range(lines)})
           /\ \A i \in 1..Len(files) :
                 LET a == LinesAbout(files[i].file, "action")
                     s == LinesAbout(files[i].file, "stats")
                 IN /\ files[i].hasAction
                    /\ \E k \in 1..Len(a) : a[k].action = files[i].action
                    /\ files[i].added = SumSeq([k \in 1..Len(s) |-> Atoi(s[k].added)])
                    /\ files[i].removed = SumSeq([k \in 1..Len(s) |-> Atoi(s[k].removed)])

\* C19, the failing case: a/f.c is renamed to a/b/f.c and nothing else changes;
\* the stats line names a/{ => b}/f.c, and the commit has two file records, one
\* for a/f.c with the action and no counts, one for a//f.c with the counts and
\* no action.
C19_RenameIntoNewDirectory ==
    /\ item # <<>>
    /\ Len(lines) = 2
    /\ lines[1].kind = "action"
    /\ lines[1].file = <<"a", Slash, "f.c">>
    /\ lines[2].file = <<"a", Slash, Open, Arrow, "b", Close, Slash, "f.c">>
    /\ Len(item[1].files) = 2
    /\ \E i, k \in 1..2 :
          /\ item[1].files[i].file = <<"a", Slash, "f.c">>
          /\ item[1].files[i].hasAction /\ ~item[1].files[i].hasStats
          /\ item[1].files[k].file = <<"a", Slash, Slash, "f.c">>
          /\ item[1].files[k].hasStats /\ ~item[1].files[k].hasAction

\* ------------------------------------------------------------ commit URLs
\* An origin is the sequence of its tokens, joined without separator:
\* https://cgit.x.org/p is <<"https://", "c", "git.", "x.org", "/", "p">>.
\* No two neighbouring tokens of the model join to a text that holds one of the
\* searched words across their border.
BadEscape == "%zz"

Schemes == {"git://", "http://", "https://", "ssh://"}
Hosts == {<<"git.", "x.org">>, <<"c", "git.", "x.org">>, <<"github.com">>,
          <<"gitlab.com">>, <<"bitbucket.org">>, <<"gerrit", ".x.org">>,
          <<"review", ".x.org">>, <<"x.org">>}
Paths == {<<Slash, "p">>, <<Slash, "p", ".git">>, <<Slash, "gerrit", Slash, "p">>,
          <<Slash, "r", Slash, "p">>, <<Slash, "git.", "p">>, <<Slash, BadEscape>>}
Origins == {<<s>> \o h \o p : s \in Schemes, h \in Hosts, p \in Paths}
Hashes == {"1f3a", "9c0e"}

\* strings.HasPrefix, strings.Contains and strings.HasSuffix for a text of tokens
HasPrefix(s, pre) == Len(s) >= Len(pre) /\ SubSeq(s, 1, Len(pre)) = pre
Contains(s, sub) ==
    \E i \in 1..(Len(s) - Len(sub) + 1) : SubSeq(s, i, i + Len(sub) - 1) = sub
HasSuffix(s, suf) ==
    Len(s) >= Len(suf) /\ SubSeq(s, Len(s) - Len(suf) + 1, Len(s)) = suf

RECURSIVE Remove(_, _)
\* strings.Replace(s, sub, "", -1): s without the occurrences of sub, taken
\* from the left
Remove(s, sub) ==
    IF s = <<>> THEN <<>>
    ELSE IF HasPrefix(s, sub) THEN Remove(SubSeq(s, Len(sub) + 1, Len(s)), sub)
    ELSE <<Head(s)>> \o Remove(Tail(s), sub)

RECURSIVE TrimLeft(_, _)
\* strings.TrimLeft(s, "/")
TrimLeft(s, tok) ==
    IF s # <<>> /\ Head(s) = tok THEN TrimLeft(Tail(s), tok) ELSE s

\* url.Parse: an error for a bad percent escape, else the scheme (with its
\* "://"), the host and the path of the origin
UrlParses(o) == ~Contains(o, <<BadEscape>>)
UrlHostEnd(o) ==
    IF \E i \in 2..Len(o) : o[i] = Slash
    THEN (CHOOSE i \in 2..Len(o) : o[i] = Slash /\ \A k \in 2..(i - 1) : o[k] # Slash) - 1
    ELSE Len(o)
UrlScheme(o) == <<o[1]>>
UrlHost(o) == SubSeq(o, 2, UrlHostEnd(o))
UrlPath(o) == SubSeq(o, UrlHostEnd(o) + 1, Len(o))

\* the Gerrit gitweb URL of GetCommitURL
GerritURL(o, h) ==
    LET path == UrlPath(o)
        vURL == IF Contains(path, <<Slash, "gerrit", Slash>>)
                    THEN <<"gerrit", Slash, "gitweb">>
                ELSE IF Contains(path, <<Slash, "r", Slash>>)
                    THEN <<"r", Slash, "gitweb">>
                ELSE <<"gitweb">>
        trimmed == TrimLeft(Remove(Remove(path, <<Slash, "gerrit", Slash>>),
                                   <<Slash, "r", Slash>>), Slash)
        project == IF HasSuffix(trimmed, <<".git">>) THEN trimmed
                   ELSE trimmed \o <<".git">>
    IN UrlScheme(o) \o UrlHost(o) \o <<Slash>> \o vURL \o <<"?", "p=">> \o project
         \o <<";", "a=commit", ";", "h=", h>>

\* the last return of GetCommitURL, were it to build the URL as the branch
\* before it does
FallbackWithCommitId(o, h) ==
    [url |-> o \o <<Slash, "commit", Slash, "?id=", h>>, type |-> "unknown"]

\* the last return of GetCommitURL
FallbackURL(o, h) ==
    [url |-> o \o <<Slash, h>>, type |-> "unknown"]

\* the branch of GetCommitURL for an origin that holds "git." and matched no
\* branch before
GitDotURL(o, h) ==
    [url |-> o \o <<Slash, "commit", Slash, "?id=", h>>, type |-> "unknown"]

\* GetCommitURL: the URL of commit h of the repository at o, and the type of
\* the repository
GetCommitURL(o, h) ==
    IF HasPrefix(o, <<"git://">>)
        THEN [url |-> <<"http://">> \o Tail(o) \o <<Slash, "commit", Slash, "?id=", h>>,
              type |-> "git"]
    ELSE IF HasPrefix(o, <<"http://", "git.">>) \/ HasPrefix(o, <<"https://", "git.">>)
        THEN [url |-> o \o <<Slash, "commit", Slash, "?id=", h>>, type |-> "git"]
    ELSE IF Contains(o, <<"github.com">>)
        THEN [url |-> o \o <<Slash, "commit", Slash, h>>, type |-> "github"]
    ELSE IF Contains(o, <<"gitlab.com">>)
        THEN [url |-> o \o <<Slash, "-", Slash, "commit", Slash, h>>, type |-> "gitlab"]
    ELSE IF Contains(o, <<"bitbucket.org">>)
        THEN [url |-> o \o <<Slash, "commits", Slash, h>>, type |-> "bitbucket"]
    ELSE IF Contains(o, <<"gerrit">>) \/ Contains(o, <<"review">>)
        THEN IF ~UrlParses(o)
                 THEN [url |-> o \o <<Slash, h>>, type |-> "unknown"]
             ELSE [url |-> GerritURL(o, h), type |-> "gerrit"]
    ELSE IF Contains(o, <<"git.">>)
               /\ (~Contains(o, <<"gerrit">>) \/ ~Contains(o, <<"review">>))
        THEN GitDotURL(o, h)
    ELSE FallbackURL(o, h)

\* one commit of one repository, before EnrichItem derives its URL
UrlInit ==
    /\ origin \in Origins
    /\ hsh \in Hashes
    /\ commit_url = <<>>
    /\ NoEnrichment
    /\ hist = {}
    /\ dates = <<>>
    /\ ProcessStart
    /\ NoLog
    /\ NoThreads
    /\ NoWindows
    /\ NoBranch

\* EnrichItem sets commit_url and commit_repo_type
SetCommitURL ==
    /\ origin # <<>>
    /\ commit_url = <<>>
    /\ commit_url' = <<GetCommitURL(origin, hsh)>>
    /\ UNCHANGED <<origin, hsh, outsideUrl>>

UrlNext == SetCommitURL

UrlSpec == UrlInit /\ [][UrlNext]_vars

\* ---------------------------------------------------------------- C21
\* the origins C21 speaks of: not a git:// URL, not starting with
\* http(s)://git., holding none of github.com, gitlab.com, bitbucket.org,
\* gerrit, review
C21_OtherOrigin ==
    /\ ~HasPrefix(origin, <<"git://">>)
    /\ ~HasPrefix(origin, <<"http://", "git.">>)
    /\ ~HasPrefix(origin, <<"https://", "git.">>)
    /\ \A w \in {"github.com", "gitlab.com", "bitbucket.org", "gerrit", "review"} :
          ~Contains(origin, <<w>>)

\* C21 as stated: for every origin that is not a git:// URL, does not start
\* with http(s)://git. and holds none of github.com, gitlab.com,
\* bitbucket.org, gerrit, review, GetCommitURL returns origin + "/" + sha
\* with repository type unknown
C21_FallbackForEveryOtherOrigin ==
    (commit_url # <<>> /\ C21_OtherOrigin)
        => commit_url[1] = [url |-> origin \o <<Slash, hsh>>, type |-> "unknown"]

\* C21 amended: for every such origin that, in addition, does not hold
\* "git." anywhere, GetCommitURL returns origin + "/" + sha with type
\* unknown; for every such origin that holds "git." it returns
\* origin + "/commit/?id=" + sha with type unknown
C21_FallbackWithoutGitDot ==
    (commit_url # <<>> /\ C21_OtherOrigin)
        => /\ commit_url[1].type = "unknown"
           /\ commit_url[1].url =
                 IF Contains(origin, <<"git.">>)
                 THEN origin \o <<Slash, "commit", Slash, "?id=", hsh>>
                 ELSE origin \o <<Slash, hsh>>

\* the URL of a commit of ssh://x.org/p has been derived
C21_PlainOriginDerived ==
    /\ commit_url # <<>>
    /\ C21_OtherOrigin
    /\ origin = <<"ssh://", "x.org", Slash, "p">>
    /\ commit_url[1].url = <<"ssh://", "x.org", Slash, "p", Slash, hsh>>

\* ---------------------------------------------------------------- C22
\* the file name holds no dot, or nothing follows its last dot
C22_NoExtension(name) ==
    \/ \A i \in 1..Len(name) : Len(DotParts(name[i])) = 1
    \/ /\ Len(DotParts(name[Len(name)])) > 1
       /\ DotParts(name[Len(name)])[Len(DotParts(name[Len(name)]))] = ""

\* the files of the emitted commit C22 speaks of
C22_FilesWithoutExtension ==
    {i \in 1..Len(rich[1].file_data) : C22_NoExtension(rich[1].file_data[i].name)}

\* C22: for every file name that holds no dot, or whose text after the last
\* dot is empty, ParseFileExtension returns UNKNOWN, and the emitted files
\* list counts these files, and no others, in its UNKNOWN entry
C22_UnknownBucket ==
    (emitted # <<>> /\ C22_FilesWithoutExtension # {})
        => /\ \A i \in C22_FilesWithoutExtension :
                ParseFileExtension(rich[1].file_data[i].name) = <<UnknownExtension>>
           /\ \E k \in 1..Len(emitted[1].Files) :
                /\ emitted[1].Files[k].Type = <<UnknownExtension>>
                /\ emitted[1].Files[k].FilesCreated + emitted[1].Files[k].FilesModified
                     + emitted[1].Files[k].FilesDeleted
                       = Cardinality(C22_FilesWithoutExtension)

\* a commit that modifies Makefile is emitted with an entry of type Makefile
C22_MakefileIsItsOwnType ==
    /\ emitted # <<>>
    /\ \E i \in 1..Len(rich[1].file_data) :
         /\ rich[1].file_data[i].name = <<"Makefile">>
         /\ rich[1].file_data[i].action = "M"
    /\ \E k \in 1..Len(emitted[1].Files) :
         /\ emitted[1].Files[k].Type = <<"Makefile">>
         /\ emitted[1].Files[k].FilesModified = 1

\* ------------------------------------------------------ parsing of a git log
\* The lines git log prints are records: kind says which of the patterns
\* GitCommitPattern ("commit"), GitHeaderPattern ("header"), GitMessagePattern
\* ("message"), GitActionPattern and GitStatsPattern ("file") the line
\* matches, "blank" is the empty line and "junk" a line that matches none.  The
\* patterns exclude one another on the lines of the model: a commit line has no
\* colon after its first word, a message line starts with four blanks, an
\* action line with a colon and a stats line with a number.
GitParseStateInit == 0
GitParseStateCommit == 1
GitParseStateHeader == 2
GitParseStateMessage == 3
GitParseStateFile == 4

\* most properties of j.Commit for which ParseHeader stores a header
GitMaxCommitProperties == 5
\* most lines of a log
MaxLines == 8

LogLine(kind, sha, name, value, data) ==
    [kind |-> kind, sha |-> sha, name |-> name, value |-> value, data |-> data]
BlankLine == LogLine("blank", "", "", "", <<>>)
JunkLine == LogLine("junk", "", "", "", <<>>)
CommitLine(sha) == LogLine("commit", sha, "", "", <<>>)
HeaderLine(name, value) == LogLine("header", "", name, value, <<>>)
\* a message line whose text is Name: value, or value alone for name ""
MessageLine(name, value) == LogLine("message", "", name, value, <<>>)
FileLine(data) == LogLine("file", "", "", "", <<data>>)

LogShas == {"c1", "c2"}
\* the parents git log --parents prints after the sha
ParentsOf(sha) == IF sha = "c2" THEN <<"c1">> ELSE <<>>
HeaderNames == {"Author", "Commit", "Merge"}
TheChange ==
    [action |-> "M", old |-> <<"f.c">>, new |-> <<>>, added |-> "1", removed |-> "0"]
LogLines ==
    {BlankLine, JunkLine}
      \cup {CommitLine(sha) : sha \in LogShas}
      \cup {HeaderLine(n, "v") : n \in HeaderNames}
      \cup {MessageLine("", "fix"), MessageLine("Signed-off-by", "Bob Ray <b@x>")}
      \cup {FileLine(ActionLine(TheChange)), FileLine(StatsLine(TheChange))}

\* strings.ToLower, for the trailer names of the model
ToLower(name) ==
    CASE name = "Signed-off-by" -> "signed-off-by"
      [] name = "SIGNED-OFF-BY" -> "signed-off-by"
      [] name = "Reviewed-by" -> "reviewed-by"
      [] name = "Acked-and-Tested-by" -> "acked-and-tested-by"
      [] OTHER -> name

\* GitAllowedTrailers: four of its entries
GitAllowedTrailers ==
    [t \in {"acked-and-tested-by", "co-authored-by", "reviewed-by", "signed-off-by"} |->
        CASE t = "acked-and-tested-by" -> <<"Reviewed-by", "Tested-by">>
          [] t = "co-authored-by" -> <<"Co-authored-by">>
          [] t = "reviewed-by" -> <<"Reviewed-by">>
          [] t = "signed-off-by" -> <<"Co-authored-by", "Signed-off-by">>]

RECURSIVE UniqueStringArrayKeepsAll(_)
\* shared.UniqueStringArray, were it to return its argument
UniqueStringArrayKeepsAll(ary) ==
    IF ary = <<>> THEN <<>> ELSE <<Head(ary)>> \o UniqueStringArrayKeepsAll(Tail(ary))

RECURSIVE UniqueStringArray(_)
\* shared.UniqueStringArray: the distinct strings of ary, here in the order of
\* their first occurrence
UniqueStringArray(ary) ==
    IF ary = <<>> THEN <<>>
    ELSE LET init == UniqueStringArray(SubSeq(ary, 1, Len(ary) - 1))
             last == ary[Len(ary)]
         IN IF last \in Range(init) THEN init ELSE Append(init, last)

\* j.Commit after ParseCommit.  headers holds the keys whose value is a string
\* that ParseHeader set, trailers the keys whose value is a list, renamed the
\* lists under the keys <Name>-Trailer, message the lines of the key message
NewCommit(sha) ==
    [commit |-> sha, parents |-> ParentsOf(sha), headers |-> EmptyMap,
     message |-> <<>>, trailers |-> EmptyMap, renamed |-> EmptyMap]

\* len(j.Commit) in ParseHeader: commit, parents, refs, branch and the headers
LenCommit(c) == 4 + Cardinality(DOMAIN c.headers)

RECURSIVE StoreTrailer(_, _, _)
\* the loop of ParseTrailer over the canonical names of an alias
StoreTrailer(c, names, value) ==
    IF names = <<>> THEN c
    ELSE LET trailer == Head(names)
             stored ==
                IF trailer \in DOMAIN c.headers
                THEN IF trailer \in DOMAIN c.renamed
                     THEN [c EXCEPT !.renamed =
                              Put(c.renamed, trailer, Append(c.renamed[trailer], value))]
                     ELSE [c EXCEPT !.renamed = Put(c.renamed, trailer, <<value>>)]
                ELSE IF trailer \in DOMAIN c.trailers
                THEN [c EXCEPT !.trailers =
                         Put(c.trailers, trailer,
                             UniqueStringArray(Append(c.trailers[trailer], value)))]
                ELSE [c EXCEPT !.trailers = Put(c.trailers, trailer, <<value>>)]
         IN StoreTrailer(stored, Tail(names), value)

\* ParseTrailer: j.Commit after the message line Name: value
ParseTrailer(c, l) ==
    IF l.name = "" THEN c
    ELSE IF ToLower(l.name) \notin DOMAIN GitAllowedTrailers THEN c
    ELSE StoreTrailer(c, GitAllowedTrailers[ToLower(l.name)], l.value)

\* what a Parse function returns, with the fields of j it has set
Parsed(j, parsed, empty, err) == [j |-> j, parsed |-> parsed, empty |-> empty, err |-> err]

\* ParseInit, were it to leave the Init state on a blank line only
ParseInitOnBlankOnly(j, l) ==
    Parsed(IF l.kind = "blank" THEN [j EXCEPT !.ParseState = GitParseStateCommit] ELSE j,
           TRUE, FALSE, FALSE)

ParseInit(j, l) ==
    Parsed([j EXCEPT !.ParseState = GitParseStateCommit], l.kind = "blank", FALSE, FALSE)

\* ParseCommit, were it to pass over a line that is not a commit line
ParseCommitSkipsOtherLines(j, l) ==
    IF l.kind # "commit" THEN Parsed(j, TRUE, FALSE, FALSE)
    ELSE Parsed([ParseState |-> GitParseStateHeader, Commit |-> <<NewCommit(l.sha)>>,
                 CommitFiles |-> EmptyMap], TRUE, FALSE, FALSE)

ParseCommit(j, l) ==
    IF l.kind # "commit" THEN Parsed(j, FALSE, FALSE, TRUE)
    ELSE Parsed([ParseState |-> GitParseStateHeader, Commit |-> <<NewCommit(l.sha)>>,
                 CommitFiles |-> EmptyMap], TRUE, FALSE, FALSE)

\* ParseHeader, were it to store a header whatever the size of j.Commit
ParseHeaderWithoutCap(j, l) ==
    IF l.kind = "blank"
        THEN Parsed([j EXCEPT !.ParseState = GitParseStateMessage], TRUE, FALSE, FALSE)
    ELSE IF l.kind # "header" THEN Parsed(j, FALSE, FALSE, TRUE)
    ELSE Parsed([j EXCEPT !.Commit[1].headers = Put(@, l.name, l.value)],
                TRUE, FALSE, FALSE)

ParseHeader(j, l) ==
    IF l.kind = "blank"
        THEN Parsed([j EXCEPT !.ParseState = GitParseStateMessage], TRUE, FALSE, FALSE)
    ELSE IF l.kind # "header" THEN Parsed(j, FALSE, FALSE, TRUE)
    ELSE IF LenCommit(j.Commit[1]) < GitMaxCommitProperties
        THEN Parsed([j EXCEPT !.Commit[1].headers = Put(@, l.name, l.value)],
                    TRUE, FALSE, FALSE)
    ELSE Parsed(j, TRUE, FALSE, FALSE)

ParseMessage(j, l) ==
    IF l.kind = "blank"
        THEN Parsed([j EXCEPT !.ParseState = GitParseStateFile], TRUE, FALSE, FALSE)
    ELSE IF l.kind # "message"
        THEN Parsed([j EXCEPT !.ParseState = GitParseStateFile], FALSE, FALSE, FALSE)
    ELSE Parsed([j EXCEPT !.Commit =
                    <<ParseTrailer([j.Commit[1] EXCEPT !.message = Append(@, l)], l)>>],
                TRUE, FALSE, FALSE)

\* ParseFile for a line of a log, were it not to tell a commit line from
\* another line it cannot parse
ParseFileLineNeverEmpty(j, l) ==
    IF l.kind = "blank"
        THEN Parsed([j EXCEPT !.ParseState = GitParseStateCommit], TRUE, FALSE, FALSE)
    ELSE IF l.kind = "file" /\ l.data[1].kind = "action"
        THEN Parsed([j EXCEPT !.CommitFiles = ParseAction(@, l.data[1])], TRUE, FALSE, FALSE)
    ELSE IF l.kind = "file" /\ l.data[1].kind = "stats"
        THEN Parsed([j EXCEPT !.CommitFiles = ParseStats(@, l.data[1])], TRUE, FALSE, FALSE)
    ELSE Parsed([j EXCEPT !.ParseState = GitParseStateCommit], FALSE, FALSE, FALSE)

\* ParseFile for a line of a log
ParseFileLine(j, l) ==
    IF l.kind = "blank"
        THEN Parsed([j EXCEPT !.ParseState = GitParseStateCommit], TRUE, FALSE, FALSE)
    ELSE IF l.kind = "file" /\ l.data[1].kind = "action"
        THEN Parsed([j EXCEPT !.CommitFiles = ParseAction(@, l.data[1])], TRUE, FALSE, FALSE)
    ELSE IF l.kind = "file" /\ l.data[1].kind = "stats"
        THEN Parsed([j EXCEPT !.CommitFiles = ParseStats(@, l.data[1])], TRUE, FALSE, FALSE)
    ELSE Parsed([j EXCEPT !.ParseState = GitParseStateCommit], FALSE, l.kind = "commit", FALSE)

\* the switch of ParseNextCommit on j.ParseState
ParseByState(j, l) ==
    CASE j.ParseState = GitParseStateInit -> ParseInit(j, l)
      [] j.ParseState = GitParseStateCommit -> ParseCommit(j, l)
      [] j.ParseState = GitParseStateHeader -> ParseHeader(j, l)
      [] j.ParseState = GitParseStateMessage -> ParseMessage(j, l)
      [] j.ParseState = GitParseStateFile -> ParseFileLine(j, l)

\* the commit BuildCommit returns for j.Commit and j.CommitFiles
BuiltCommit(j, empty) ==
    [commit |-> j.Commit[1].commit, parents |-> j.Commit[1].parents,
     headers |-> j.Commit[1].headers, message |-> j.Commit[1].message,
     trailers |-> j.Commit[1].trailers, renamed |-> j.Commit[1].renamed,
     files |-> BuildCommit(j.CommitFiles).files,
     doc_commit |-> BuildCommit(j.CommitFiles).doc_commit,
     empty_commit |-> empty]

\* j after BuildCommit, were it to leave j.Commit and j.CommitFiles alone
BuiltKeepsCommit(j) == j

\* j after BuildCommit
Built(j) == [j EXCEPT !.Commit = <<>>, !.CommitFiles = EmptyMap]

RECURSIVE ParseLine(_, _)
\* the inner loop of ParseNextCommit for the line l: j after it, the commit
\* returned with ok (as <<commit>>, <<>> when the loop goes on to the next
\* line), and whether an error is returned
ParseLine(j, l) ==
    LET r == ParseByState(j, l)
    IN IF r.err THEN [j |-> r.j, out |-> <<>>, err |-> TRUE]
       ELSE IF r.j.ParseState = GitParseStateCommit /\ r.j.Commit # <<>>
           THEN IF r.empty
                THEN LET again == ParseCommit(Built(r.j), l)
                     IN IF ~again.parsed \/ again.err
                        THEN [j |-> again.j, out |-> <<>>, err |-> again.err]
                        ELSE [j |-> again.j, out |-> <<BuiltCommit(r.j, TRUE)>>,
                              err |-> FALSE]
                ELSE [j |-> Built(r.j), out |-> <<BuiltCommit(r.j, FALSE)>>, err |-> FALSE]
       ELSE IF r.parsed THEN [j |-> r.j, out |-> <<>>, err |-> FALSE]
       ELSE ParseLine(r.j, l)

\* the fields of j the parser works on
ParserOf == [ParseState |-> ParseState, Commit |-> Commit, CommitFiles |-> CommitFiles]

\* Sync has started git log: nothing is read yet
LogInit ==
    /\ ParseState = GitParseStateInit
    /\ Commit = <<>>
    /\ CommitFiles = EmptyMap
    /\ CurrLine = 0
    /\ line = <<>>
    /\ yielded = <<>>
    /\ parseErr = <<>>
    /\ logPos = "parsing"
    /\ commitLines = <<>>
    /\ lines = <<>>
    /\ item = <<>>
    /\ rich = <<>>
    /\ emitted = <<>>
    /\ hist = {}
    /\ dates = <<>>
    /\ ProcessStart
    /\ NoCommitURL
    /\ NoThreads
    /\ NoWindows
    /\ NoBranch

\* one pass of the scanner loop of ParseNextCommit, for the line l that git log
\* prints next; the call returns when the pass yields a commit or an error, and
\* Sync returns on the error
ScanLine(l) ==
    /\ logPos = "parsing"
    /\ CurrLine < MaxLines
    /\ CurrLine' = CurrLine + 1
    /\ line' = <<l>>
    /\ commitLines' = IF l.kind = "commit" THEN Append(commitLines, l.sha) ELSE commitLines
    /\ LET r == ParseLine(ParserOf, l)
       IN /\ ParseState' = r.j.ParseState
          /\ Commit' = r.j.Commit
          /\ CommitFiles' = r.j.CommitFiles
          /\ yielded' = yielded \o r.out
          /\ parseErr' = IF r.err THEN <<CurrLine + 1>> ELSE <<>>
          /\ logPos' = IF r.err THEN "failed" ELSE "parsing"
    /\ UNCHANGED <<lines, item, rich, emitted, syncVars, urlVars, thrVars, winVars, brVars>>

\* ParseNextCommit when the scanner has no more lines: the commit in progress
\* is returned, and the call after that returns without one
ScanEnds ==
    /\ logPos \in {"parsing", "atEnd"}
    /\ IF Commit # <<>>
       THEN /\ yielded' = Append(yielded, BuiltCommit(ParserOf, FALSE))
            /\ Commit' = Built(ParserOf).Commit
            /\ CommitFiles' = Built(ParserOf).CommitFiles
            /\ logPos' = "atEnd"
       ELSE /\ logPos' = "finished"
            /\ UNCHANGED <<yielded, Commit, CommitFiles>>
    /\ UNCHANGED <<ParseState, CurrLine, line, parseErr, commitLines>>
    /\ UNCHANGED <<lines, item, rich, emitted, syncVars, urlVars, thrVars, winVars, brVars>>

LogNext ==
    \/ \E l \in LogLines : ScanLine(l)
    \/ ScanEnds

LogSpec == LogInit /\ [][LogNext]_vars

\* ---------------------------------------------------------------- C23
\* C23: as long as ParseNextCommit has returned no error, the commits it has
\* yielded are, in order, the commits of the commit lines read, each with the
\* sha of its line; only the commit in progress is not yet yielded, and once
\* the input has ended and the last call has returned, none is missing
C23_OneCommitPerCommitLine ==
    parseErr = <<>>
        => /\ Len(yielded) <= Len(commitLines)
           /\ \A i \in 1..Len(yielded) : yielded[i].commit = commitLines[i]
           /\ Len(yielded) = Len(commitLines) - (IF Commit = <<>> THEN 0 ELSE 1)
           /\ Commit # <<>> => Commit[1].commit = commitLines[Len(commitLines)]
           /\ logPos = "finished" => Len(yielded) = Len(commitLines)

\* a log of two commits has been parsed to its end: the first, with a file, was
\* yielded at the blank line after its file section, the second at the end
C23_TwoCommitsYielded ==
    /\ logPos = "finished"
    /\ commitLines = <<"c1", "c2">>
    /\ Len(yielded) = 2
    /\ Len(yielded[1].files) = 1
    /\ ~yielded[1].empty_commit
    /\ yielded[2].commit = "c2"

\* ---------------------------------------------------------------- C24
\* a pass of the scanner loop reads a commit line while the parser is in the
\* File state
C24_CommitLineInFileState ==
    /\ logPos = "parsing"
    /\ ParseState = GitParseStateFile
    /\ CurrLine' = CurrLine + 1
    /\ line'[1].kind = "commit"

\* C24: when a commit line arrives while the parser is in the File state, the
\* commit in progress is yielded with empty_commit = true and the parser moves
\* to the Header state with the sha of the arriving line; and when the input
\* has ended without error, the commit of every commit line has been yielded
C24_EmptyCommitKeepsTheLine ==
    /\ [][C24_CommitLineInFileState
            => /\ Len(yielded') = Len(yielded) + 1
               /\ yielded'[Len(yielded')].empty_commit
               /\ yielded'[Len(yielded')].commit = Commit[1].commit
               /\ ParseState' = GitParseStateHeader
               /\ Commit' # <<>>
               /\ Commit'[1].commit = line'[1].sha
               /\ parseErr' = <<>>]_vars
    /\ []((logPos = "finished" /\ parseErr = <<>>)
            => /\ Len(yielded) = Len(commitLines)
               /\ \A i \in 1..Len(yielded) : yielded[i].commit = commitLines[i])

\* the log commit c1, blank, message, blank, commit c2 has been parsed to its
\* end: c1 was yielded as an empty commit when the line of c2 arrived, c2 at
\* the end
C24_EmptyCommitThenNext ==
    /\ logPos = "finished"
    /\ CurrLine = 5
    /\ Len(yielded) = 2
    /\ yielded[1].commit = "c1" /\ yielded[1].empty_commit
    /\ yielded[2].commit = "c2" /\ ~yielded[2].empty_commit

\* ---------------------------------------------------------------- C25
\* a pass of the scanner loop reads a line while the parser is in the Init state
C25_LineInInitState ==
    /\ logPos = "parsing"
    /\ ParseState = GitParseStateInit
    /\ CurrLine' = CurrLine + 1

\* C25 as stated: in the Init state only a blank line moves the parser to the
\* Commit state; on a non-blank line the parser stays in Init
C25_NonBlankStaysInInit ==
    [][C25_LineInInitState
         => IF line'[1].kind = "blank" THEN ParseState' = GitParseStateCommit
            ELSE ParseState' = GitParseStateInit]_vars

\* C25 amended: in the Init state every line moves the parser out of Init.  A
\* blank line leaves it in the Commit state; a non-blank line is parsed in the
\* Commit state in the same pass: a commit line opens its commit (Header
\* state), every other line is a parse error in the Commit state
C25_EveryLineLeavesInit ==
    [][C25_LineInInitState
         => CASE line'[1].kind = "blank" ->
                   ParseState' = GitParseStateCommit /\ parseErr' = <<>> /\ Commit' = <<>>
              [] line'[1].kind = "commit" ->
                   /\ ParseState' = GitParseStateHeader
                   /\ parseErr' = <<>>
                   /\ Commit' # <<>> /\ Commit'[1].commit = line'[1].sha
              [] OTHER ->
                   ParseState' = GitParseStateCommit /\ parseErr' = <<CurrLine'>>]_vars

\* the first line of the log was the line of commit c1, and its commit is open
C25_FirstLineIsACommitLine ==
    /\ CurrLine = 1
    /\ line = <<CommitLine("c1")>>
    /\ ParseState = GitParseStateHeader
    /\ Commit # <<>> /\ Commit[1].commit = "c1"

\* ---------------------------------------------------------------- C26
\* a pass of the scanner loop reads, with the parser in the Commit state, a
\* line that is not a commit line
C26_OtherLineInCommitState ==
    /\ logPos = "parsing"
    /\ ParseState = GitParseStateCommit
    /\ CurrLine' = CurrLine + 1
    /\ line'[1].kind # "commit"

\* C26: in the Commit state every line that does not match the commit pattern
\* makes ParseNextCommit return a parse error that carries the number of the
\* line; no commit is yielded for the line, and Sync returns with the error:
\* it reads no further line and calls ParseNextCommit no more
C26_CommitStateError ==
    /\ [][C26_OtherLineInCommitState
            => /\ parseErr' = <<CurrLine'>>
               /\ yielded' = yielded
               /\ Commit' = Commit
               /\ logPos' = "failed"]_vars
    /\ [][logPos = "failed" => UNCHANGED vars]_vars
    /\ [](logPos = "failed" <=> parseErr # <<>>)

\* commit c1 was yielded at the blank line after its file section, and the
\* line after that blank line, line 6, was a junk line
C26_JunkAfterACommit ==
    /\ logPos = "failed"
    /\ parseErr = <<6>>
    /\ line = <<JunkLine>>
    /\ Len(yielded) = 1
    /\ ParseState = GitParseStateCommit

\* ---------------------------------------------------------------- C27
\* a pass of the scanner loop reads a malformed line: in the Header state a
\* line that is neither blank nor of the form Name: value, in the File state
\* a line that is none of action line, stats line, commit line and blank
C27_MalformedInHeaderState ==
    /\ logPos = "parsing"
    /\ ParseState = GitParseStateHeader
    /\ CurrLine' = CurrLine + 1
    /\ line'[1].kind \notin {"blank", "header"}
C27_MalformedInFileState ==
    /\ logPos = "parsing"
    /\ ParseState = GitParseStateFile
    /\ CurrLine' = CurrLine + 1
    /\ line'[1].kind \notin {"blank", "file", "commit"}

\* C27: a malformed line in the Header state or in the File state does not
\* abort parsing: no error is returned, the parser goes on, and the commit in
\* progress is either still in progress or yielded by this pass
C27_MalformedLineDoesNotAbort ==
    [][(C27_MalformedInHeaderState \/ C27_MalformedInFileState)
         => /\ parseErr' = <<>>
            /\ logPos' = "parsing"
            /\ \/ Commit' = Commit /\ yielded' = yielded
               \/ /\ Len(yielded') = Len(yielded) + 1
                  /\ yielded'[Len(yielded')].commit = Commit[1].commit]_vars

\* the second line of the log, after the line of commit c1, was a junk line:
\* ParseNextCommit returned an error for line 2, and c1 was not yielded
C27_JunkHeaderAborts ==
    /\ logPos = "failed"
    /\ parseErr = <<2>>
    /\ line = <<JunkLine>>
    /\ ParseState = GitParseStateHeader
    /\ Commit # <<>> /\ Commit[1].commit = "c1"
    /\ yielded = <<>>

\* ---------------------------------------------------------------- C28
\* a pass of the scanner loop reads a header line in the Header state
C28_HeaderLineInHeaderState ==
    /\ logPos = "parsing"
    /\ ParseState = GitParseStateHeader
    /\ CurrLine' = CurrLine + 1
    /\ line'[1].kind = "header"

\* the header of the line read is stored in the commit in progress; the
\* header of the line read is dropped
C28_Stored ==
    Commit' = <<[Commit[1] EXCEPT !.headers = Put(@, line'[1].name, line'[1].value)]>>
C28_Dropped == Commit' = Commit

\* C28 as stated, with GitMaxCommitProperties for 1000: a commit record never
\* holds more than GitMaxCommitProperties headers; a header line is stored as
\* long as the record holds fewer headers than that, every further header
\* line is dropped; neither is an error, and the parser stays in the Header
\* state
C28_FirstThousandHeadersStored ==
    /\ [](Commit # <<>> => Cardinality(DOMAIN Commit[1].headers) <= GitMaxCommitProperties)
    /\ [][C28_HeaderLineInHeaderState
            => /\ ParseState' = GitParseStateHeader
               /\ parseErr' = <<>>
               /\ yielded' = yielded
               /\ IF Cardinality(DOMAIN Commit[1].headers) < GitMaxCommitProperties
                  THEN C28_Stored ELSE C28_Dropped]_vars

\* C28 amended: the cap is on the properties of the commit record, of which
\* commit, parents, refs and branch are four: a commit record never holds more
\* than GitMaxCommitProperties - 4 headers; a header line is stored as long as
\* the record holds fewer than GitMaxCommitProperties properties, every
\* further header line is dropped, a new value for a header already stored
\* included; neither is an error, and the parser stays in the Header state
C28_PropertiesCapped ==
    /\ [](Commit # <<>>
            => Cardinality(DOMAIN Commit[1].headers) <= GitMaxCommitProperties - 4)
    /\ [](\A i \in 1..Len(yielded) :
            Cardinality(DOMAIN yielded[i].headers) <= GitMaxCommitProperties - 4)
    /\ [][C28_HeaderLineInHeaderState
            => /\ ParseState' = GitParseStateHeader
               /\ parseErr' = <<>>
               /\ yielded' = yielded
               /\ IF 4 + Cardinality(DOMAIN Commit[1].headers) < GitMaxCommitProperties
                  THEN C28_Stored ELSE C28_Dropped]_vars

\* the commit in progress holds as many properties as the cap allows, and the
\* header line just read, with a name it does not hold, was dropped
C28_HeaderDropped ==
    /\ logPos = "parsing"
    /\ ParseState = GitParseStateHeader
    /\ Commit # <<>>
    /\ LenCommit(Commit[1]) = GitMaxCommitProperties
    /\ line # <<>> /\ line[1].kind = "header"
    /\ line[1].name \notin DOMAIN Commit[1].headers

\* ------------------------------------------------- the trailers of a message
\* most message lines of a commit
MaxTrailerLines == 3

TrailerNames == {"Signed-off-by", "SIGNED-OFF-BY", "Reviewed-by", "Acked-and-Tested-by",
                 "Fixes"}
TrailerLineValues == {"Bob Ray <b@x>", "Cy <c@x>"}
\* the message lines: one that is no trailer line, and the trailer lines
TrailerLines ==
    {MessageLine("", "fix")}
      \cup {MessageLine(n, v) : n \in TrailerNames, v \in TrailerLineValues}

\* the headers of a commit when its message starts: none, the Author header,
\* or a header with the name of a trailer
MessageStartHeaders ==
    {EmptyMap} \cup {Put(EmptyMap, n, "Ann Lee <a@x>") :
                        n \in {"Author", "Reviewed-by", "Signed-off-by"}}

\* the parser has read the line of commit c1, its headers and the blank line
\* after them
TrailerInit ==
    /\ \E h \in MessageStartHeaders :
         /\ Commit = <<[NewCommit("c1") EXCEPT !.headers = h]>>
         /\ CurrLine = 2 + Cardinality(DOMAIN h)
    /\ ParseState = GitParseStateMessage
    /\ CommitFiles = EmptyMap
    /\ line = <<BlankLine>>
    /\ yielded = <<>>
    /\ parseErr = <<>>
    /\ logPos = "parsing"
    /\ commitLines = <<"c1">>
    /\ lines = <<>>
    /\ item = <<>>
    /\ rich = <<>>
    /\ emitted = <<>>
    /\ hist = {}
    /\ dates = <<>>
    /\ ProcessStart
    /\ NoCommitURL
    /\ NoThreads
    /\ NoWindows
    /\ NoBranch

\* the next line of the log is a message line
TrailerNext ==
    \E l \in TrailerLines :
        /\ Len(Commit[1].message) < MaxTrailerLines
        /\ ScanLine(l)

TrailerSpec == TrailerInit /\ [][TrailerNext]_vars

\* ---------------------------------------------------------------- C29
\* the canonical trailer names of the alias dictionary
C29_Canonical == UNION {Range(GitAllowedTrailers[a]) : a \in DOMAIN GitAllowedTrailers}

\* the values of the message lines read so far whose lowercased name is an
\* alias of the canonical name t, in the order of the lines
C29_ValuesFor(t) ==
    LET ls == SeqFilter(Commit[1].message,
                        {l \in Range(Commit[1].message) :
                            /\ l.name # ""
                            /\ ToLower(l.name) \in DOMAIN GitAllowedTrailers
                            /\ t \in Range(GitAllowedTrailers[ToLower(l.name)])})
    IN [i \in 1..Len(ls) |-> ls[i].value]

\* C29: for every message line Name: Value whose lowercased name is in the
\* alias dictionary the value is stored under each canonical name of the
\* alias; where the commit has a header under the canonical name, the values
\* go under <Name>-Trailer and the header stays as it is; elsewhere the list
\* of the trailer holds each distinct value exactly once, however often the
\* line repeats; a name that is not in the dictionary stores nothing
C29_TrailerStorage ==
    /\ [](\A t \in C29_Canonical :
            LET vs == C29_ValuesFor(t)
            IN IF vs = <<>>
               THEN t \notin DOMAIN Commit[1].trailers /\ t \notin DOMAIN Commit[1].renamed
               ELSE IF t \in DOMAIN Commit[1].headers
               THEN /\ t \in DOMAIN Commit[1].renamed
                    /\ Range(Commit[1].renamed[t]) = Range(vs)
                    /\ t \notin DOMAIN Commit[1].trailers
               ELSE /\ t \in DOMAIN Commit[1].trailers
                    /\ Range(Commit[1].trailers[t]) = Range(vs)
                    /\ Len(Commit[1].trailers[t]) = Cardinality(Range(vs))
                    /\ t \notin DOMAIN Commit[1].renamed)
    /\ [](/\ DOMAIN Commit[1].trailers \subseteq C29_Canonical
          /\ DOMAIN Commit[1].renamed \subseteq C29_Canonical)
    /\ [][Commit'[1].headers = Commit[1].headers]_vars

\* a commit with a header Reviewed-by has read the line "Acked-and-Tested-by:
\* Bob Ray <b@x>" twice: the value is under Reviewed-by-Trailer, and once in
\* the list of Tested-by
C29_RepeatedAliasOfTwoNames ==
    /\ "Reviewed-by" \in DOMAIN Commit[1].headers
    /\ Len(Commit[1].message) = 2
    /\ \A i \in 1..2 :
         Commit[1].message[i] = MessageLine("Acked-and-Tested-by", "Bob Ray <b@x>")
    /\ "Reviewed-by" \in DOMAIN Commit[1].renamed
    /\ Commit[1].trailers = Put(EmptyMap, "Tested-by", <<"Bob Ray <b@x>">>)

\* ------------------------------------------- Sync with more than one thread
\* Sync where thrN > 1: the controller parses the log and starts one goroutine
\* per commit, at most thrN of them not yet heard of; each goroutine runs
\* processCommit; the LOC collector and the orphan detector run beside them and
\* send their result once on goch and on occh.  All the channels are unbuffered:
\* a send and its receive are one step.  A commit is the number of its goroutine.

\* waitForLOC: if !locFinished
NeedsResultsNever(finished) == FALSE
NeedsResults(finished) == ~finished

\* waitForLOC: the error it returns for the results e1 of goch and e2 of occh
\* (TRUE: an error)
BarrierError(e1, e2) ==
    IF e1 /\ e2
    THEN TRUE
    ELSE LET e == IF e1 THEN e1 ELSE FALSE
         IN  IF e2 THEN e1 ELSE e

\* both helpers have handed their result to a receiver
Delivered == goch.pc = "done" /\ occh.pc = "done"

\* the commits handed to GitEnrichItems so far
Enriched == UNION {{flushed[i][k] : k \in DOMAIN flushed[i]} : i \in DOMAIN flushed}

ThreadInit ==
    /\ mainPos = "parse"
    /\ nThreads = 0
    /\ thr = [t \in Goroutines |-> NotStarted]
    /\ goch = [pc |-> "running", e |-> FALSE]
    /\ occh = [pc |-> "running", e |-> FALSE]
    /\ locFinished = FALSE
    /\ waitLOCMtx = 0
    /\ allCommitsMtx = FALSE
    /\ pack = <<>>
    /\ flushed = <<>>
    /\ escha = <<>>
    /\ eschaTodo = <<>>
    /\ late = "none"
    /\ NoEnrichment
    /\ hist = {}
    /\ dates = <<>>
    /\ ProcessStart
    /\ NoCommitURL
    /\ NoLog
    /\ NoWindows
    /\ NoBranch

\* the worker of GetGitOps ends: c <- e
GitOpsWorker ==
    /\ goch.pc = "running"
    /\ \E e \in BOOLEAN : goch' = [pc |-> "sending", e |-> e]
    /\ UNCHANGED <<mainPos, nThreads, thr, occh, locFinished, waitLOCMtx,
                   allCommitsMtx, pack, flushed, escha, eschaTodo, late, outsideThr>>

\* the worker of GetOrphanedCommits ends: c <- e
OrphanedCommitsWorker ==
    /\ occh.pc = "running"
    /\ \E e \in BOOLEAN : occh' = [pc |-> "sending", e |-> e]
    /\ UNCHANGED <<mainPos, nThreads, thr, goch, locFinished, waitLOCMtx,
                   allCommitsMtx, pack, flushed, escha, eschaTodo, late, outsideThr>>

\* ParseNextCommit returns a commit: go func(com), nThreads++
SpawnCommit ==
    /\ mainPos = "parse"
    /\ \E t \in Goroutines :
         /\ thr[t].pc = "none"
         /\ \A u \in Goroutines : u < t => thr[u].pc # "none"
         /\ thr' = [thr EXCEPT ![t].pc = "cloc"]
    /\ nThreads' = nThreads + 1
    /\ mainPos' = IF nThreads + 1 = ThrN THEN "recv" ELSE "parse"
    /\ UNCHANGED <<goch, occh, locFinished, waitLOCMtx, allCommitsMtx, pack,
                   flushed, escha, eschaTodo, late, outsideThr>>

\* ParseNextCommit returns !ok: break
LogEnds ==
    /\ mainPos = "parse"
    /\ mainPos' = "drain"
    /\ UNCHANGED <<nThreads, thr, goch, occh, locFinished, waitLOCMtx, allCommitsMtx,
                   pack, flushed, escha, eschaTodo, late, outsideThr>>

\* ParseNextCommit returns an error: Sync returns it
LogFails ==
    /\ mainPos = "parse"
    /\ mainPos' = "failed"
    /\ UNCHANGED <<nThreads, thr, goch, occh, locFinished, waitLOCMtx, allCommitsMtx,
                   pack, flushed, escha, eschaTodo, late, outsideThr>>

\* err = <-ch, in the loop over the log and in the loop after it, together
\* with the deferred c <- e of the goroutine t
ReceiveResult(t) ==
    /\ \/ mainPos = "recv"
       \/ mainPos = "drain" /\ nThreads > 0
    /\ thr[t].pc = "send"
    /\ thr' = [thr EXCEPT ![t].pc = "sent"]
    /\ IF mainPos = "recv"
       THEN IF thr[t].e
            THEN mainPos' = "failed" /\ UNCHANGED nThreads
            ELSE mainPos' = "parse" /\ nThreads' = nThreads - 1
       ELSE /\ nThreads' = nThreads - 1
            /\ mainPos' = IF thr[t].e THEN "failed" ELSE "drain"
    /\ UNCHANGED <<goch, occh, locFinished, waitLOCMtx, allCommitsMtx, pack,
                   flushed, escha, eschaTodo, late, outsideThr>>

\* the loop after the log ends with nThreads = 0: eschaMtx.Lock() and the range
\* over escha as it is now
Drained ==
    /\ mainPos = "drain"
    /\ nThreads = 0
    /\ mainPos' = "escha"
    /\ eschaTodo' = escha
    /\ UNCHANGED <<nThreads, thr, goch, occh, locFinished, waitLOCMtx, allCommitsMtx,
                   pack, flushed, escha, late, outsideThr>>

\* err = <-esch, together with the deferred c <- ee of sendToQueue
ReceiveFlush ==
    /\ mainPos = "escha"
    /\ eschaTodo # <<>>
    /\ LET t == Head(eschaTodo)
       IN  /\ thr[t].esch = "sending"
           /\ thr' = [thr EXCEPT ![t].esch = "done"]
           /\ IF thr[t].ee
              THEN mainPos' = "failed" /\ eschaTodo' = <<>>
              ELSE mainPos' = "escha" /\ eschaTodo' = Tail(eschaTodo)
    /\ UNCHANGED <<nThreads, goch, occh, locFinished, waitLOCMtx, allCommitsMtx,
                   pack, flushed, escha, late, outsideThr>>

\* the end of Sync: eschaMtx.Unlock(), cmd.Wait() and the call of the final
\* GitEnrichItems with allCommits as it is now
FinalEnrich ==
    /\ mainPos = "escha"
    /\ eschaTodo = <<>>
    /\ \E ok \in BOOLEAN :
         IF ok
         THEN /\ flushed' = Append(flushed, pack)
              /\ mainPos' = "final"
         ELSE /\ mainPos' = "failed"
              /\ UNCHANGED flushed
    /\ UNCHANGED <<nThreads, thr, goch, occh, locFinished, waitLOCMtx, allCommitsMtx,
                   pack, escha, eschaTodo, late, outsideThr>>

\* the final GitEnrichItems returns (its error is logged), and Sync starts the
\* goroutine that waits for the helpers if !locFinished
FinalEnrichReturns ==
    /\ mainPos = "final"
    /\ late' = IF ~locFinished THEN "goch" ELSE "none"
    /\ mainPos' = "done"
    /\ UNCHANGED <<nThreads, thr, goch, occh, locFinished, waitLOCMtx, allCommitsMtx,
                   pack, flushed, escha, eschaTodo, outsideThr>>

\* <-goch in the goroutine started at the end of Sync
LateReceivesLOC ==
    /\ late = "goch"
    /\ goch.pc = "sending"
    /\ goch' = [goch EXCEPT !.pc = "done"]
    /\ late' = "occh"
    /\ UNCHANGED <<mainPos, nThreads, thr, occh, locFinished, waitLOCMtx,
                   allCommitsMtx, pack, flushed, escha, eschaTodo, outsideThr>>

\* <-occh and locFinished = true in the goroutine started at the end of Sync
LateReceivesOrphans ==
    /\ late = "occh"
    /\ occh.pc = "sending"
    /\ occh' = [occh EXCEPT !.pc = "done"]
    /\ late' = "done"
    /\ locFinished' = TRUE
    /\ UNCHANGED <<mainPos, nThreads, thr, goch, waitLOCMtx, allCommitsMtx, pack,
                   flushed, escha, eschaTodo, outsideThr>>

\* processCommit: cloc of the commit and the decoding of its output; on a
\* failure it returns before the send on c is deferred
Cloc(t) ==
    /\ thr[t].pc = "cloc"
    /\ \E ok \in BOOLEAN :
         thr' = [thr EXCEPT ![t].pc = IF ok THEN "wait" ELSE "gone"]
    /\ UNCHANGED <<mainPos, nThreads, goch, occh, locFinished, waitLOCMtx,
                   allCommitsMtx, pack, flushed, escha, eschaTodo, late, outsideThr>>

\* waitForLOC: waitLOCMtx.Lock(); with locFinished it unlocks and returns nil
LockLOC(t) ==
    /\ thr[t].pc = "wait"
    /\ waitLOCMtx = 0
    /\ IF NeedsResults(locFinished)
       THEN /\ waitLOCMtx' = t
            /\ thr' = [thr EXCEPT ![t].pc = "goch"]
       ELSE /\ thr' = [thr EXCEPT ![t].pc = "append"]
            /\ UNCHANGED waitLOCMtx
    /\ UNCHANGED <<mainPos, nThreads, goch, occh, locFinished, allCommitsMtx,
                   pack, flushed, escha, eschaTodo, late, outsideThr>>

\* waitForLOC: e1 := <-goch
ReceiveLOC(t) ==
    /\ thr[t].pc = "goch"
    /\ goch.pc = "sending"
    /\ goch' = [goch EXCEPT !.pc = "done"]
    /\ thr' = [thr EXCEPT ![t].pc = "occh", ![t].e1 = goch.e]
    /\ UNCHANGED <<mainPos, nThreads, occh, locFinished, waitLOCMtx, allCommitsMtx,
                   pack, flushed, escha, eschaTodo, late, outsideThr>>

\* waitForLOC: e2 := <-occh and what follows it, to the return of waitForLOC;
\* on an error processCommit returns it
ReceiveOrphans(t) ==
    /\ thr[t].pc = "occh"
    /\ occh.pc = "sending"
    /\ occh' = [occh EXCEPT !.pc = "done"]
    /\ waitLOCMtx' = 0
    /\ IF BarrierError(thr[t].e1, occh.e)
       THEN /\ thr' = [thr EXCEPT ![t].pc = "send", ![t].e = TRUE]
            /\ UNCHANGED locFinished
       ELSE /\ thr' = [thr EXCEPT ![t].pc = "append"]
            /\ locFinished' = TRUE
    /\ UNCHANGED <<mainPos, nThreads, goch, allCommitsMtx, pack, flushed, escha,
                   eschaTodo, late, outsideThr>>

\* processCommit: allCommitsMtx.Lock(), the append to allCommits and, with a
\* full pack, go sendToQueue(wch), which unlocks; else allCommitsMtx.Unlock()
AppendCommit(t) ==
    /\ thr[t].pc = "append"
    /\ ~allCommitsMtx
    /\ pack' = Append(pack, t)
    /\ IF Len(pack) + 1 >= PackSize
       THEN /\ allCommitsMtx' = TRUE
            /\ thr' = [thr EXCEPT ![t].pc = "send", ![t].esch = "enrich"]
       ELSE /\ thr' = [thr EXCEPT ![t].pc = "send"]
            /\ UNCHANGED allCommitsMtx
    /\ UNCHANGED <<mainPos, nThreads, goch, occh, locFinished, waitLOCMtx, flushed,
                   escha, eschaTodo, late, outsideThr>>

\* the goroutine of sendToQueue starts: it calls GitEnrichItems with allCommits
GoSendToQueue(t) ==
    /\ thr[t].esch = "enrich"
    /\ flushed' = Append(flushed, pack)
    /\ thr' = [thr EXCEPT ![t].esch = "enriching"]
    /\ UNCHANGED <<mainPos, nThreads, goch, occh, locFinished, waitLOCMtx,
                   allCommitsMtx, pack, escha, eschaTodo, late, outsideThr>>

\* sendToQueue: GitEnrichItems returns, allCommits = []interface{}{},
\* allCommitsMtx.Unlock(); its result ee then waits on wch
SendToQueue(t) ==
    /\ thr[t].esch = "enriching"
    /\ pack' = <<>>
    /\ allCommitsMtx' = FALSE
    /\ \E ee \in BOOLEAN : thr' = [thr EXCEPT ![t].esch = "sending", ![t].ee = ee]
    /\ UNCHANGED <<mainPos, nThreads, goch, occh, locFinished, waitLOCMtx, flushed,
                   escha, eschaTodo, late, outsideThr>>

\* the goroutine after processCommit has returned: on an error it logs it; with
\* a channel of a flush it appends it to escha under eschaMtx, which the
\* controller holds during its loop over escha
EndGoroutine(t) ==
    /\ thr[t].pc = "sent"
    /\ thr' = [thr EXCEPT ![t].pc = "done"]
    /\ IF ~thr[t].e /\ thr[t].esch # "none"
       THEN /\ mainPos # "escha"
            /\ escha' = Append(escha, t)
       ELSE UNCHANGED escha
    /\ UNCHANGED <<mainPos, nThreads, goch, occh, locFinished, waitLOCMtx,
                   allCommitsMtx, pack, flushed, eschaTodo, late, outsideThr>>

ThreadNext ==
    \/ GitOpsWorker
    \/ OrphanedCommitsWorker
    \/ SpawnCommit
    \/ LogEnds
    \/ LogFails
    \/ \E t \in Goroutines : ReceiveResult(t)
    \/ Drained
    \/ ReceiveFlush
    \/ FinalEnrich
    \/ FinalEnrichReturns
    \/ LateReceivesLOC
    \/ LateReceivesOrphans
    \/ \E t \in Goroutines : Cloc(t)
    \/ \E t \in Goroutines : LockLOC(t)
    \/ \E t \in Goroutines : ReceiveLOC(t)
    \/ \E t \in Goroutines : ReceiveOrphans(t)
    \/ \E t \in Goroutines : AppendCommit(t)
    \/ \E t \in Goroutines : GoSendToQueue(t)
    \/ \E t \in Goroutines : SendToQueue(t)
    \/ \E t \in Goroutines : EndGoroutine(t)

ThreadSpec == ThreadInit /\ [][ThreadNext]_vars

\* C30: in Sync with thrN > 1 no commit is appended to the pending pack, and
\* none is enriched, before both the LOC collector and the orphan detector
\* have delivered their results: a step that appends to the pack starts where
\* both results have been received, and whenever a commit is in the pack or
\* has been handed to GitEnrichItems both results have been received.
C30_BarrierBeforeAppend ==
    /\ []((pack # <<>> \/ Enriched # {}) => Delivered)
    /\ [][Len(pack') > Len(pack) => Delivered]_vars

\* C30 witness: two goroutines have passed the barrier and their commits have
\* been flushed as one pack, after both helpers had delivered.
C30_PackFlushedAfterBarrier ==
    /\ Delivered
    /\ \E i \in DOMAIN flushed : Len(flushed[i]) = PackSize
    /\ Cardinality(Enriched) >= PackSize

\* C31: in Sync with thrN > 1, if either helper reports an error (the LOC
\* collector, the orphan detector, or both), the barrier returns an error, the
\* waiting commit is not enqueued, and Sync returns an error: once a goroutine
\* has received both results and one of them is an error, no goroutine goes on
\* to the append, no commit is in the pending pack or has been handed to
\* GitEnrichItems, and Sync has not returned nil.
C31_HelperErrorFailsBarrier ==
    (Delivered /\ late = "none" /\ (goch.e \/ occh.e)) =>
        /\ \A t \in Goroutines : thr[t].pc # "append"
        /\ pack = <<>>
        /\ Enriched = {}
        /\ ~locFinished
        /\ mainPos # "done"

\* C31 witness: the orphan detector alone reported an error, a goroutine
\* received it at the barrier, and commits have been enriched and Sync has
\* returned nil all the same.
C31_OrphanErrorSwallowed ==
    /\ Delivered
    /\ late = "none"
    /\ occh.e
    /\ ~goch.e
    /\ Enriched # {}
    /\ mainPos = "done"

\* the goroutines of commits that run processCommit: started and not yet
\* through their send on ch
Working == {t \in Goroutines :
              thr[t].pc \in {"cloc", "wait", "goch", "occh", "append", "send"}}
\* the goroutines of sendToQueue that are about to call GitEnrichItems or are in it
Flushing == {t \in Goroutines : thr[t].esch \in {"enrich", "enriching"}}

\* C32: with thrN > 1, at every moment at most thrN worker goroutines started
\* by the controller are running, the pack-flush goroutines they start
\* included: the goroutines running processCommit and those running a pack
\* flush are together at most thrN.
C32_AtMostThrNRunning ==
    Cardinality(Working) + Cardinality(Flushing) <= ThrN

\* C32 witness: thrN goroutines run processCommit while the goroutine of a
\* pack flush, started by a goroutine the controller has already heard of,
\* runs GitEnrichItems.
C32_FlushBesideThrNWorkers ==
    /\ Cardinality(Working) = ThrN
    /\ \E t \in Flushing : thr[t].pc \in {"sent", "done"}

\* the calls of GitEnrichItems that are running: those of the goroutines of
\* sendToQueue, and the final one of the controller (0)
InGitEnrichItems ==
    {t \in Goroutines : thr[t].esch = "enriching"}
        \cup (IF mainPos = "final" THEN {0} ELSE {})

\* C33: in Sync with thrN > 1 the shared maps and the pending document buffer
\* are mutated only under one mutex, so no two pack flushes ever execute
\* concurrently, and the final flush at the end of Sync never overlaps a pack
\* flush started by a worker: at most one call of GitEnrichItems runs at a time.
C33_OneFlushAtATime ==
    Cardinality(InGitEnrichItems) <= 1

\* C33 witness: the final GitEnrichItems of the controller runs while the
\* goroutine of a pack flush is in GitEnrichItems, holding allCommitsMtx.
C33_FinalFlushOverlapsPackFlush ==
    /\ mainPos = "final"
    /\ allCommitsMtx
    /\ \E t \in Goroutines : thr[t].esch = "enriching"

\* Sync with thrN > 1 where the Go scheduler lets run every goroutine that can
\* take a step, and every subprocess and helper ends: weak fairness of each step
ThreadFairness ==
    /\ WF_vars(GitOpsWorker)
    /\ WF_vars(OrphanedCommitsWorker)
    /\ WF_vars(SpawnCommit)
    /\ WF_vars(LogEnds)
    /\ WF_vars(LogFails)
    /\ WF_vars(\E t \in Goroutines : ReceiveResult(t))
    /\ WF_vars(Drained)
    /\ WF_vars(ReceiveFlush)
    /\ WF_vars(FinalEnrich)
    /\ WF_vars(FinalEnrichReturns)
    /\ WF_vars(LateReceivesLOC)
    /\ WF_vars(LateReceivesOrphans)
    /\ \A t \in Goroutines :
         /\ WF_vars(Cloc(t))
         /\ WF_vars(LockLOC(t))
         /\ WF_vars(ReceiveLOC(t))
         /\ WF_vars(ReceiveOrphans(t))
         /\ WF_vars(AppendCommit(t))
         /\ WF_vars(GoSendToQueue(t))
         /\ WF_vars(SendToQueue(t))
         /\ WF_vars(EndGoroutine(t))

ThreadFairSpec == ThreadSpec /\ ThreadFairness

\* C38: in Sync with thrN > 1 every goroutine launched for a commit delivers
\* one result on the result channel on every path, so the main loop never
\* waits forever: Sync eventually returns, with or without an error.
C38_SyncEventuallyReturns == <>(mainPos \in {"done", "failed"})

\* C38 witness: the log has ended and the controller waits for a result on ch,
\* while every goroutine it started has ended, one of them after a failed cloc
\* without a send on ch.
C38_ControllerWaitsForever ==
    /\ mainPos = "drain"
    /\ nThreads > 0
    /\ \A t \in Goroutines : thr[t].pc \in {"none", "gone", "done"}
    /\ \E t \in Goroutines : thr[t].pc = "gone"

\* a step of SyncV2 that hands the next commit of the window to processCommit
FedToEnrichment == pc = "commits" /\ queue # <<>> /\ queue' = Tail(queue)
\* a step of SyncV2 that lists the next window
NextWindow == pc = "windows" /\ pc' \in {"windows", "commits"}

\* C34: in SyncV2 the windows are visited in increasing date order, and within
\* each 30-day window the commits are fed to enrichment in descending
\* committer-date order: no commit still to be fed in the window is later than
\* the one fed.
C34_DescendingWithinWindow ==
    /\ [][NextWindow => from' > from]_vars
    /\ [][FedToEnrichment =>
            \A i \in DOMAIN queue' : dates[queue'[i]] <= dates[Head(queue)]]_vars

\* C34 amended: in SyncV2 the windows are visited in increasing date order, each
\* listing holds the commits whose committer date lies in its window, and
\* within each window the commits are fed to enrichment in ascending
\* committer-date order (the newest-first listing of the window, walked from
\* its end): no commit still to be fed in the window is earlier than the one fed.
C34_AscendingWithinWindow ==
    /\ [][NextWindow =>
            /\ from' = from + WindowLen
            /\ \A i \in DOMAIN queue' :
                 dates[queue'[i]] >= from /\ dates[queue'[i]] <= from']_vars
    /\ [][FedToEnrichment =>
            \A i \in DOMAIN queue' : dates[queue'[i]] >= dates[Head(queue)]]_vars

\* C34 witness: a commit of a window has been fed and a commit of the same
\* window with a later committer date is the next to be fed.
C34_EarlierCommitFedFirst ==
    /\ pc = "commits"
    /\ allCommits # <<>>
    /\ queue # <<>>
    /\ dates[allCommits[Len(allCommits)]] < dates[Head(queue)]
    /\ dates[allCommits[Len(allCommits)]] >= from - WindowLen
    /\ dates[Head(queue)] <= from

\* ------------------------------------------------- the windows of SyncV2
\* The window loop of SyncV2 on its own, for a commit whose author date and
\* committer date differ: dates holds the committer dates, which r.Log compares
\* with Since and Until, and authorWhen the author dates, from which SyncV2
\* takes its start and the end of its loop.  What processCommit does with a
\* commit is left out; fed records the commits handed to it.

\* dates of the commits: the first day, the tenth day, the end of the first
\* window of a history that starts on the first day, a day of the second window
WinDates == {FirstDate, 10 * MinutesPerDay, FirstDate - SixtySeconds + WindowLen,
             WindowLen + 20 * MinutesPerDay}
\* values of ctx.DateFrom
DateFroms == {ZeroTime, 10 * MinutesPerDay, WindowLen + 20 * MinutesPerDay}

\* SyncV2: from, the later of ctx.DateFrom and 60 seconds before the author
\* date of the first commit
WinStart ==
    LET first == authorWhen[getFirstCommit] - SixtySeconds
    IN  IF DateFrom > first THEN DateFrom ELSE first

\* the rest of the variables of a run, which the window loop alone leaves
syncRest == <<dates, hist, cacheFile, updateFile, shardFiles, lastSyncFile, runs,
              lastSync, msgRev, OrphanedMap, allCommits, allDocs, idx,
              cachedCommits, CachedCommitsUpdates, createdCommits, gMaxUpstreamDt,
              IsHotRep, CurrentCacheHalf, pushes, statusLog, syncErr, loaded, seen,
              enrichFailed, unchanged, rerun>>
outsideWin == <<syncRest, enrichVars, urlVars, logVars, thrVars, brVars>>

WindowInit ==
    /\ \E n \in 2..MaxWinCommits :
         /\ hist = 1..n
         /\ dates \in {d \in [1..n -> WinDates] : NonDecreasing(d)}
         /\ authorWhen \in {a \in [1..n -> WinDates] : \A s \in 1..n : a[s] <= dates[s]}
    /\ DateFrom \in DateFroms
    /\ fed = <<>>
    /\ ProcessStart
    /\ NoEnrichment
    /\ NoCommitURL
    /\ NoLog
    /\ NoThreads
    /\ NoBranch

\* SyncV2 up to its loop: from
SetFrom ==
    /\ pc = "idle"
    /\ from' = WinStart
    /\ pc' = "windows"
    /\ UNCHANGED <<queue, authorWhen, DateFrom, fed, outsideWin>>

\* the head of SyncV2's loop: the next 30-day window is listed, or the loop ends
ListWindow ==
    /\ pc = "windows"
    /\ IF from < authorWhen[headCommit]
       THEN /\ queue' = getRepoCommits(from, from + WindowLen)
            /\ from' = from + WindowLen
            /\ pc' = IF queue' = <<>> THEN "windows" ELSE "commits"
       ELSE /\ pc' = "finalEnrich"
            /\ UNCHANGED <<queue, from>>
    /\ UNCHANGED <<authorWhen, DateFrom, fed, outsideWin>>

\* the body of SyncV2's loop: the next commit of the listing goes to processCommit
FeedCommit ==
    /\ pc = "commits"
    /\ queue # <<>>
    /\ fed' = Append(fed, Head(queue))
    /\ queue' = Tail(queue)
    /\ pc' = IF queue' = <<>> THEN "windows" ELSE "commits"
    /\ UNCHANGED <<from, authorWhen, DateFrom, outsideWin>>

WindowNext == SetFrom \/ ListWindow \/ FeedCommit

WindowSpec == WindowInit /\ [][WindowNext]_vars

\* the commits handed to processCommit
Fed == {fed[i] : i \in DOMAIN fed}

\* C36: in SyncV2 every commit reachable from HEAD whose committer date is at
\* or after the start date from is passed to enrichment at least once in the
\* run, HEAD included, also when a committer date differs from the author date
\* and when from is not before HEAD's author date: when the window loop has
\* ended, every such commit has been handed to processCommit.
C36_WindowsCoverHistory ==
    pc = "finalEnrich" =>
        \A s \in hist : dates[s] >= WinStart => s \in Fed

\* C36 witness: the window loop has ended and the HEAD commit, committed after
\* the start date and later than it was authored, was never handed to
\* processCommit, while the loop did list windows.
C36_HeadCommittedLaterIsSkipped ==
    /\ pc = "finalEnrich"
    /\ from > WinStart
    /\ authorWhen[headCommit] < dates[headCommit]
    /\ dates[headCommit] >= WinStart
    /\ headCommit \notin Fed

\* ------------------------------------------------------ branch of a commit
\* GetCommitBranch on the refs of a commit line.  A ref is a sequence of
\* tokens, chosen so that none of the searched words arises across a token
\* border; "" is the empty sequence.

\* j.DefaultBranch
DefaultBranch == <<"main">>
TagMarker == <<"tag: ">>
RefArrow == " -> "
\* the refs git log --decorate=full prints, and the short ones of the comment
\* of GetCommitBranch
RefChoices ==
    {<<"HEAD", RefArrow, "refs/heads/", "main">>, <<"HEAD", RefArrow, "refs/heads/", "dev">>,
     <<"refs/heads/", "main">>, <<"refs/heads/", "dev">>,
     <<"refs/remotes/", "origin/", "main">>, <<"refs/remotes/", "origin/", "dev">>,
     <<"origin/", "main">>, <<"origin/", "dev">>,
     <<"main">>, <<"dev">>,
     <<"tag: ", "refs/tags/", "v1">>, <<"tag: ", "v2">>}
RefLists == UNION {[1..n -> RefChoices] : n \in 0..MaxRefs}

\* strings.Split(ref, " -> ") and its last part
AfterLastArrow(ref) ==
    IF \E i \in DOMAIN ref : ref[i] = RefArrow
    THEN LET k == CHOOSE i \in DOMAIN ref :
                    ref[i] = RefArrow /\ \A m \in DOMAIN ref : ref[m] = RefArrow => m <= i
         IN  SubSeq(ref, k + 1, Len(ref))
    ELSE ref

\* strings.Replace(s, sub, "", 1): s without the first occurrence of sub
ReplaceOnce(s, sub) ==
    IF Contains(s, sub)
    THEN LET k == CHOOSE i \in 1..(Len(s) - Len(sub) + 1) :
                    /\ SubSeq(s, i, i + Len(sub) - 1) = sub
                    /\ \A m \in 1..(i - 1) : SubSeq(s, m, m + Len(sub) - 1) # sub
         IN  SubSeq(s, 1, k - 1) \o SubSeq(s, k + Len(sub), Len(s))
    ELSE s

\* the body of the loop of GetCommitBranch up to the test of isTag: the ref
\* without the tag marker, then its part after the last " -> ", without the
\* first "origin/" and the first "refs/heads/"
RefName(ref) ==
    LET r1 == IF HasPrefix(ref, TagMarker) THEN SubSeq(ref, 2, Len(ref)) ELSE ref
        r2 == AfterLastArrow(r1)
        r3 == ReplaceOnce(r2, <<"origin/">>)
    IN  ReplaceOnce(r3, <<"refs/heads/">>)

RECURSIVE BranchLoop(_, _, _)
\* the loop of GetCommitBranch over the refs left, with tag and branch so far
BranchLoop(rs, tag, br) ==
    IF rs = <<>> THEN [tag |-> tag, branch |-> br]
    ELSE LET ref == RefName(Head(rs))
         IN  IF HasPrefix(Head(rs), TagMarker) THEN BranchLoop(Tail(rs), ref, br)
             ELSE IF ref = DefaultBranch THEN BranchLoop(Tail(rs), tag, br)
             ELSE BranchLoop(Tail(rs), tag, ref)

GetCommitBranch(rs) ==
    LET r == BranchLoop(rs, <<>>, <<>>)
        b1 == IF r.branch = <<>> /\ r.tag # <<>> THEN r.tag ELSE r.branch
    IN  IF b1 = <<>> THEN DefaultBranch ELSE b1

BranchInit ==
    /\ refs \in RefLists
    /\ branch = <<>>
    /\ NoEnrichment
    /\ hist = {}
    /\ dates = <<>>
    /\ ProcessStart
    /\ NoCommitURL
    /\ NoLog
    /\ NoThreads
    /\ NoWindows

\* ParseCommit sets j.Commit["branch"]
SetBranch ==
    /\ branch = <<>>
    /\ branch' = <<IF Len(refs) > 0 THEN GetCommitBranch(refs) ELSE DefaultBranch>>
    /\ UNCHANGED <<refs, syncVars, enrichVars, urlVars, logVars, thrVars, winVars>>

BranchNext == SetBranch

BranchSpec == BranchInit /\ [][BranchNext]_vars

\* a string without the prefix, if it starts with it
StripPrefix(s, pre) == IF HasPrefix(s, pre) THEN SubSeq(s, Len(pre) + 1, Len(s)) ELSE s
\* a ref after stripping the tag marker, the HEAD -> prefix, origin/ and
\* refs/heads/
Stripped(ref) ==
    StripPrefix(StripPrefix(StripPrefix(StripPrefix(ref, TagMarker),
                                        <<"HEAD", RefArrow>>),
                            <<"origin/">>),
                <<"refs/heads/">>)
\* the refs of the list that are tags, and those that name a branch other than
\* the default branch
TagRefs == {i \in DOMAIN refs : HasPrefix(refs[i], TagMarker)}
OtherBranchRefs == {i \in DOMAIN refs \ TagRefs : Stripped(refs[i]) # DefaultBranch}
Last(S) == CHOOSE i \in S : \A k \in S : k <= i

\* C35: GetCommitBranch, for every list of refs, returns the last ref that
\* names a branch other than the default branch, stripped of the tag marker,
\* the HEAD -> prefix, origin/ and refs/heads/; if there is none, the last
\* tag; if there is no tag either, the default branch.
C35_BranchPolicy ==
    branch # <<>> =>
        branch[1] = IF OtherBranchRefs # {} THEN Stripped(refs[Last(OtherBranchRefs)])
                    ELSE IF TagRefs # {} THEN Stripped(refs[Last(TagRefs)])
                    ELSE DefaultBranch

\* C35 witness: the commit at the tip of the default branch, decorated as git
\* log --decorate=full prints it, is given a branch that is neither the default
\* branch nor one of its refs with a prefix stripped.
C35_TipOfDefaultBranchMisnamed ==
    /\ refs = <<<<"HEAD", RefArrow, "refs/heads/", "main">>,
                <<"refs/remotes/", "origin/", "main">>>>
    /\ branch = <<<<"refs/remotes/", "main">>>>

\* -------------------------------------------------------------- watermark
\* the commits of the successful PushEvents calls of outputDocs in this run
PublishedCommits ==
    {s \in DOMAIN dates : \E i \in DOMAIN pushes :
        /\ pushes[i].by = "outputDocs"
        /\ pushes[i].ok
        /\ \E k \in 1..Len(pushes[i].events) : pushes[i].events[k].SHA = s}
\* the commits of the rows of the cache files
CachedShas ==
    {r.SourceEntityID : r \in cacheFile \cup updateFile \cup UNION {shardFiles[h] : h \in DOMAIN shardFiles}}
\* the persisted last_sync is not later than the date of the latest commit
\* published or cached
WatermarkCovered ==
    lastSyncFile # ZeroTime =>
        \E s \in PublishedCommits \cup CachedShas : lastSyncFile <= dates[s]

\* C37: the persisted last_sync never decreases and is never later than the
\* author date of the latest commit that was successfully published or found
\* already cached: commits of a pack whose publish failed, or that were never
\* flushed, do not advance it.
C37_WatermarkSafety ==
    /\ [][lastSyncFile' >= lastSyncFile]_vars
    /\ [](WatermarkCovered)

\* C37 witness: SyncV2 has returned and the persisted last_sync is the date of
\* a commit whose pack was flushed and whose publish failed, later than the
\* date of every commit published or cached.
C37_WatermarkPastFailedPublish ==
    /\ pc = "finish"
    /\ \E i \in DOMAIN pushes :
         /\ ~pushes[i].ok
         /\ \E k \in 1..Len(pushes[i].events) :
              lastSyncFile = dates[pushes[i].events[k].SHA]
    /\ \A s \in PublishedCommits \cup CachedShas : dates[s] < lastSyncFile

\* ------------------------------------------------- file names with braces
\* paths of files whose names hold "{" and "}" and that are not renamed
BracePaths == {<<"a", Slash, Open, "b", Close>>, <<Open, "b", Close, Slash, "f.c">>,
               <<Close, "a", Open>>}

\* the changes of one file by a commit, files with braces in their names among
\* them
BraceChanges ==
    Changes \cup [action : {"A", "M"}, old : BracePaths, new : {<<>>},
                  added : {"1", "-"}, removed : {"0"}]

\* the file sections git log prints for one or more such changes, as
\* FileSections
BraceFileSections ==
    LET lists == {cs \in UNION {[1..n -> BraceChanges] : n \in 1..MaxFiles} :
                     \A i, k \in 1..Len(cs) : i # k => cs[i].old # cs[k].old}
    IN {[i \in 1..Len(cs) |-> ActionLine(cs[i])] \o [i \in 1..Len(cs) |-> StatsLine(cs[i])] :
           cs \in lists}

\* a file section that may name files with braces is taken
BraceSectionInit ==
    /\ lines \in BraceFileSections
    /\ CurrLine = 1
    /\ CommitFiles = EmptyMap
    /\ item = <<>>
    /\ rich = <<>>
    /\ emitted = <<>>
    /\ hist = {}
    /\ dates = <<>>
    /\ ProcessStart
    /\ NoCommitURL
    /\ NoThreads
    /\ NoWindows
    /\ NoBranch
    /\ NoLog

BracePathSpec == BraceSectionInit /\ [][ParseNext]_vars

\* the path has no rename arrow
NoArrow(f) == \A i \in 1..Len(f) : f[i] # Arrow
\* the stats lines that ParseFile has gone through
StatsParsed == {i \in 1..(CurrLine - 1) : lines[i].kind = "stats"}

\* C39: ExtractPrevFileName returns its input unchanged for every path without
\* a rename arrow, paths with both { and } among them: the record of a stats
\* line for such a path is keyed by the path, and no file record is keyed by
\* the empty string.
C39_PlainPathKeptAsKey ==
    /\ \A i \in StatsParsed :
          NoArrow(lines[i].file) => ExtractPrevFileName(lines[i].file) = lines[i].file
    /\ item = <<>> =>
          /\ \A i \in StatsParsed : NoArrow(lines[i].file) => lines[i].file \in DOMAIN CommitFiles
          /\ <<>> \notin DOMAIN CommitFiles
    /\ item # <<>> => \A k \in 1..Len(item[1].files) : item[1].files[k].file # <<>>

\* C39 witness: the stats line of a file whose name holds { and } and no
\* rename arrow was parsed, and its numbers are in a record keyed by the empty
\* string.
C39_BracedNameKeyedByEmptyString ==
    /\ item = <<>>
    /\ \E i \in StatsParsed : lines[i].file \in BracePaths
    /\ <<>> \in DOMAIN CommitFiles
    /\ CommitFiles[<<>>].hasStats

====
